---- MODULE Spec2Model ----
(***************************************************************************)
(* Model of the neosearch catalog-search utility (src/cli/neosearch.py,    *)
(* src/main.py, src/server/neosearch.py).                                  *)
(*                                                                         *)
(* Python strings are modelled as sequences of one-character strings, so   *)
(* that lowercasing, substring search, the regular expression of           *)
(* parse_query, str.replace and str.strip are computed character by        *)
(* character.  Python's None is the one-element sequence <<"None">>, whose *)
(* element is not a character, so it differs from every string.            *)
(***************************************************************************)
EXTENDS Integers, Sequences, FiniteSets, TLC

\* ------------------------------------------------------------------------
\* Bounds of the model
\* ------------------------------------------------------------------------
MaxFileEntries == 11    \* largest number of entries in one repository file
MaxRepos == 3           \* cap on len(local_files) + len(urls) in the session
MaxPieces == 3          \* number of fragments a parse_query input is made of
MaxData == 2            \* length of the entry lists given to filter_data

\* ------------------------------------------------------------------------
\* Python values
\* ------------------------------------------------------------------------
None == <<"None">>

Truthy(x) == x # None /\ x # <<>>

StrVal(s) == [t |-> "str", s |-> s]

ListVal(items) == [t |-> "list", items |-> items]

UpperChars == <<"A","B","C","D","E","F","G","H","I","J","K","L","M",
                "N","O","P","Q","R","S","T","U","V","W","X","Y","Z">>

LowerChars == <<"a","b","c","d","e","f","g","h","i","j","k","l","m",
                "n","o","p","q","r","s","t","u","v","w","x","y","z">>

Digits == {"0","1","2","3","4","5","6","7","8","9"}

\* upper-case letter -> lower-case letter
LowerMap == [c \in {UpperChars[i] : i \in 1..26} |->
                LowerChars[CHOOSE i \in 1..26 : UpperChars[i] = c]]

LowerChar(c) == IF c \in DOMAIN LowerMap THEN LowerMap[c] ELSE c

\* str.lower()
Lower(s) == [i \in 1..Len(s) |-> LowerChar(s[i])]

\* sub in s
Contains(sub, s) ==
    \E i \in 0..(Len(s) - Len(sub)) : \A j \in 1..Len(sub) : s[i + j] = sub[j]

RECURSIVE JoinItems(_)
\* the inside of repr(list of str): 'x', 'y'
JoinItems(items) ==
    IF items = <<>> THEN <<>>
    ELSE <<"'">> \o Head(items) \o <<"'">>
         \o (IF Len(items) > 1 THEN <<",", " ">> ELSE <<>>)
         \o JoinItems(Tail(items))

\* str(value): a str is itself, a list of str is its repr
PyStr(v) ==
    IF v.t = "str" THEN v.s ELSE <<"[">> \o JoinItems(v.items) \o <<"]">>

\* for x in value: the elements of a list, the characters of a str
PyIter(v) ==
    IF v.t = "list" THEN v.items ELSE [i \in 1..Len(v.s) |-> <<v.s[i]>>]

\* ------------------------------------------------------------------------
\* Names used by the program
\* ------------------------------------------------------------------------
URL == <<"u","r","l">>
DESCRIPTION == <<"d","e","s","c","r","i","p","t","i","o","n">>
CATEGORY == <<"c","a","t","e","g","o","r","y">>
TAGS == <<"t","a","g","s">>
REPOSITORY == <<"r","e","p","o","s","i","t","o","r","y">>

\* An entry is a record; its keys are the field names of the JSON object.
\* FieldKey gives the key a field name spelled in a query stands for ("" is
\* the key of no entry).
FieldKey(field) ==
    CASE field = URL -> "url"
      [] field = DESCRIPTION -> "description"
      [] field = CATEGORY -> "category"
      [] field = TAGS -> "tags"
      [] field = REPOSITORY -> "repository"
      [] OTHER -> ""

per_page == 10

\* ------------------------------------------------------------------------
\* filter_data (src/cli/neosearch.py)
\* ------------------------------------------------------------------------
\* needle in haystack, both lowercased (each side is computed once: a
\* bound variable holds a value)
LowerContains(needle, haystack) ==
    \E k \in {Lower(needle)} : \E v \in {Lower(haystack)} : Contains(k, v)

TagsMatchOnRepr(entry, keyword, field) ==
    LowerContains(keyword, PyStr(entry[FieldKey(field)]))

\* any(keyword.lower() in tag.lower() for tag in entry[field])
TagsMatch(entry, keyword, field) ==
    \E tags \in {PyIter(entry[FieldKey(field)])} :
        \E i \in 1..Len(tags) : LowerContains(keyword, tags[i])

\* keyword.lower() in str(entry[field]).lower()
ValueMatch(entry, keyword, field) ==
    LowerContains(keyword, PyStr(entry[FieldKey(field)]))

\* field in entry and ...
FieldMatch(entry, keyword, field) ==
    /\ FieldKey(field) \in DOMAIN entry
    /\ IF field = TAGS THEN TagsMatch(entry, keyword, field)
                       ELSE ValueMatch(entry, keyword, field)

GlobalMatchCaseSensitive(entry, keyword) ==
    \E f \in DOMAIN entry : Contains(keyword, PyStr(entry[f]))

\* any(keyword.lower() in str(entry[f]).lower() for f in entry)
GlobalMatch(entry, keyword) ==
    \E f \in DOMAIN entry : LowerContains(keyword, PyStr(entry[f]))

\* entry.get("repository") == repository
RepoMatch(entry, repository) ==
    /\ "repository" \in DOMAIN entry
    /\ entry.repository = StrVal(repository)

\* the if / elif on keyword and field
KeywordStage(data, keyword, field) ==
    IF Truthy(keyword) /\ Truthy(field)
    THEN LET Keep(e) == FieldMatch(e, keyword, field) IN SelectSeq(data, Keep)
    ELSE IF Truthy(keyword)
    THEN LET Keep(e) == GlobalMatch(e, keyword) IN SelectSeq(data, Keep)
    ELSE data

RepositoryStageUnguarded(data, repository) ==
    LET Keep(e) == IF Truthy(repository) THEN RepoMatch(e, repository)
                   ELSE "repository" \notin DOMAIN e
    IN  SelectSeq(data, Keep)

\* if repository: filtered = [entry for entry in filtered if ...]
RepositoryStage(data, repository) ==
    IF Truthy(repository)
    THEN LET Keep(e) == RepoMatch(e, repository) IN SelectSeq(data, Keep)
    ELSE data

filter_data(data, keyword, repository, field) ==
    RepositoryStage(KeywordStage(data, keyword, field), repository)

\* ------------------------------------------------------------------------
\* parse_query (src/cli/neosearch.py, the same text in src/main.py)
\* ------------------------------------------------------------------------
\* \w of the regular expression
WordChars ==
    {UpperChars[i] : i \in 1..26} \cup {LowerChars[i] : i \in 1..26}
    \cup Digits \cup {"_"}

IsWord(c) == c \in WordChars

\* [^"] of the regular expression
NotQuote(c) == c # "\""

\* whitespace, as str.strip() removes it
IsSpace(c) == c \in {" ", "\t", "\n", "\r"}

RECURSIVE WordRunEnd(_, _)
\* \w+ from position i, greedy: the position of the last word character of
\* the run that starts at i (i - 1 when the run is empty)
WordRunEnd(q, i) ==
    IF i > Len(q) THEN i - 1
    ELSE IF IsWord(q[i]) THEN WordRunEnd(q, i + 1) ELSE i - 1

RECURSIVE ValueRunEnd(_, _)
\* [^"]+ from position i, greedy
ValueRunEnd(q, i) ==
    IF i > Len(q) THEN i - 1
    ELSE IF NotQuote(q[i]) THEN ValueRunEnd(q, i + 1) ELSE i - 1

\* a match of (\w+)="([^"]+)" that starts at position i
MatchAt(q, i) ==
    LET j == WordRunEnd(q, i)
        k == ValueRunEnd(q, j + 3)
    IN  IF /\ j >= i
           /\ j + 2 <= Len(q)
           /\ q[j + 1] = "="
           /\ q[j + 2] = "\""
           /\ k >= j + 3
           /\ k + 1 <= Len(q)
           /\ q[k + 1] = "\""
        THEN [ok |-> TRUE, field |-> SubSeq(q, i, j),
              value |-> SubSeq(q, j + 3, k), start |-> i, end |-> k + 1]
        ELSE [ok |-> FALSE]

RECURSIVE FindAllFrom(_, _)
\* pattern.findall(query): the non-overlapping matches, leftmost first
FindAllFrom(q, i) ==
    IF i > Len(q) THEN <<>>
    ELSE LET m == MatchAt(q, i)
         IN  IF m.ok THEN <<m>> \o FindAllFrom(q, m.end + 1)
                     ELSE FindAllFrom(q, i + 1)

FindAll(query) == FindAllFrom(query, 1)

DictSetKeepFirst(d, k, v) ==
    IF \E i \in 1..Len(d) : d[i][1] = k THEN d ELSE Append(d, <<k, v>>)

\* filters[field] = value on a dict, kept as its items in insertion order
DictSet(d, k, v) ==
    IF \E i \in 1..Len(d) : d[i][1] = k
    THEN [i \in 1..Len(d) |-> IF d[i][1] = k THEN <<k, v>> ELSE d[i]]
    ELSE Append(d, <<k, v>>)

RECURSIVE BuildFilters(_, _)
\* for field, value in matches: filters[field] = value
BuildFilters(filters, matches) ==
    IF matches = <<>> THEN filters
    ELSE BuildFilters(DictSet(filters, Head(matches).field, Head(matches).value),
                      Tail(matches))

RECURSIVE Replace(_, _)
\* s.replace(old, ""), old not empty
Replace(s, old) ==
    IF Len(s) < Len(old) THEN s
    ELSE IF SubSeq(s, 1, Len(old)) = old
    THEN Replace(SubSeq(s, Len(old) + 1, Len(s)), old)
    ELSE <<Head(s)>> \o Replace(Tail(s), old)

\* s.strip()
Strip(s) ==
    IF \A i \in 1..Len(s) : IsSpace(s[i]) THEN <<>>
    ELSE LET first == CHOOSE i \in 1..Len(s) :
                          ~IsSpace(s[i]) /\ \A k \in 1..(i - 1) : IsSpace(s[k])
             last == CHOOSE i \in 1..Len(s) :
                          ~IsSpace(s[i]) /\ \A k \in (i + 1)..Len(s) : IsSpace(s[k])
         IN  SubSeq(s, first, last)

\* f'{field}="{value}"'
Token(m) == m.field \o <<"=", "\"">> \o m.value \o <<"\"">>

RECURSIVE RemoveTokens(_, _)
\* for field, value in matches: remaining_query = remaining_query.replace(...).strip()
RemoveTokens(remaining_query, matches) ==
    IF matches = <<>> THEN remaining_query
    ELSE RemoveTokens(Strip(Replace(remaining_query, Token(Head(matches)))),
                      Tail(matches))

parse_query(query) ==
    LET matches == FindAll(query)
    IN  [filters |-> BuildFilters(<<>>, matches),
         remaining_query |-> RemoveTokens(query, matches)]

\* ------------------------------------------------------------------------
\* Pagination (display_table and the page arithmetic of main)
\* ------------------------------------------------------------------------
\* data[start:end], a Python slice with 0-based, end-exclusive, clamped indices
PySlice(data, start, end) ==
    SubSeq(data, start + 1, IF end < Len(data) THEN end ELSE Len(data))

PageSliceFromPage(data, page, pp) ==
    PySlice(data, page * pp, page * pp + pp)

\* display_table: page_data = data[(page - 1) * per_page : start_index + per_page]
PageSlice(data, page, pp) ==
    PySlice(data, (page - 1) * pp, (page - 1) * pp + pp)

TotalPagesFloor(count, pp) == count \div pp

\* (len(filtered_data) + per_page - 1) // per_page
TotalPages(count, pp) == (count + pp - 1) \div pp

NextPageInclusive(page, total) == IF page <= total THEN page + 1 ELSE page

NextPagePastOne(page, total) == IF page < total \/ page = 1 THEN page + 1 ELSE page

\* if user_input == 'n' and current_page < total_pages: current_page += 1
NextPage(page, total) == IF page < total THEN page + 1 ELSE page

\* elif user_input == 'p' and current_page > 1: current_page -= 1
PrevPage(page) == IF page > 1 THEN page - 1 ELSE page

ResetPageKept(page) == page

\* current_page = 1, after a filter, a clear or a repository scope
ResetPage(page) == 1

\* ------------------------------------------------------------------------
\* int(text), for the numbers the user types
\* ------------------------------------------------------------------------
DigitChars == <<"0","1","2","3","4","5","6","7","8","9">>

DigitVal(c) == (CHOOSE i \in 1..10 : DigitChars[i] = c) - 1

RECURSIVE DigitsVal(_)
DigitsVal(s) ==
    IF s = <<>> THEN 0
    ELSE 10 * DigitsVal(SubSeq(s, 1, Len(s) - 1)) + DigitVal(s[Len(s)])

AllDigits(s) == s # <<>> /\ \A i \in 1..Len(s) : s[i] \in Digits

\* int(text): ok is FALSE where Python raises ValueError
ParseInt(text) ==
    LET body == Strip(text)
    IN  IF body # <<>> /\ body[1] \in {"-", "+"} /\ AllDigits(Tail(body))
        THEN [ok |-> TRUE,
              val |-> IF body[1] = "-" THEN 0 - DigitsVal(Tail(body))
                                       ELSE DigitsVal(Tail(body))]
        ELSE IF AllDigits(body) THEN [ok |-> TRUE, val |-> DigitsVal(body)]
        ELSE [ok |-> FALSE]

\* str(i) for 0 <= i < 100
NumStr(i) ==
    IF i < 10 THEN <<DigitChars[i + 1]>>
    ELSE <<DigitChars[(i \div 10) + 1], DigitChars[(i % 10) + 1]>>

\* ------------------------------------------------------------------------
\* The catalog data the model runs on
\* ------------------------------------------------------------------------
\* the two entries of the end-to-end example
EntryA ==
    [url |-> StrVal(<<"a">>), description |-> StrVal(<<"A","l","g","e","b","r","a"," ","b","a","s","i","c","s">>),
     category |-> StrVal(<<"m","a","t","h">>), tags |-> ListVal(<<<<"m","a","t","h">>, <<"i","n","t","r","o">>>>)]

EntryB ==
    [url |-> StrVal(<<"b">>), description |-> StrVal(<<"C","h","e","m","i","s","t","r","y"," ","1","0","1">>),
     category |-> StrVal(<<"s","c","i","e","n","c","e">>)]

\* the i-th entry of a repository file: with tags and without in turn,
\* numbered by its url
FileEntry(i) ==
    IF i % 2 = 1
    THEN [url |-> StrVal(NumStr(i)), description |-> StrVal(<<"A","l","g">>),
          category |-> StrVal(<<"m","a","t","h">>), tags |-> ListVal(<<<<"m","a","t","h">>, <<"i","n","t","r","o">>>>)]
    ELSE [url |-> StrVal(NumStr(i)), description |-> StrVal(<<"C","h","e","m">>),
          category |-> StrVal(<<"s","c","i">>)]

FileData(n) == [i \in 1..n |-> FileEntry(i)]

\* the content of a source: none, text that is not JSON, or a JSON list of
\* n entries
Missing == [t |-> "missing"]

Invalid == [t |-> "invalid"]

Json(n) == [t |-> "json", n |-> n]

J1 == <<"a",".","j","s","o","n">>
J2 == <<"b",".","j","s","o","n">>
U1 == <<"h","t","t","p",":","/","/","u">>

RepoNames == {J1, J2, U1}

World(c1, c2, c3) == (J1 :> c1) @@ (J2 :> c2) @@ (U1 :> c3)

\* what the file system and the network hold: repository reference -> content
Worlds ==
    {World(Json(0), Missing, Missing),
     World(Json(0), Invalid, Json(1)),
     World(Json(5), Missing, Missing),
     World(Json(5), Invalid, Json(1)),
     World(Json(MaxFileEntries), Json(MaxFileEntries - 1), Missing)}

\* ------------------------------------------------------------------------
\* State
\* ------------------------------------------------------------------------
VARIABLES
    files,              \* what the file system and the network hold
    config,             \* main: config, the loaded YAML document
    all_data,           \* main: all_data, the Entry Store
    filtered_data,      \* main: filtered_data, the active sequence
    current_page,       \* main: current_page
    total_pages,        \* main: total_pages
    current_filter,     \* main: current_filter
    current_field,      \* main: current_field
    full_record,        \* the record display_full_record_in_table showed this turn
    last_query,         \* main: query, the text 'f' read this turn
    number_text,        \* main: record_number or repo_number as typed this turn
    user_input,         \* main: user_input, the command last read
    pc,                 \* where the program is
    pq_query,           \* parse_query: query
    pq_filters,         \* parse_query: filters
    pq_remaining_query, \* parse_query: remaining_query
    fd_data,            \* filter_data: data
    fd_keyword,         \* filter_data: keyword
    fd_repository,      \* filter_data: repository
    fd_field,           \* filter_data: field
    fd_filtered,        \* filter_data: filtered, the value returned
    env_path,           \* server: os.getenv(CONFIG_ENV_VAR, CONFIG_PATH)
    yaml_files,         \* the YAML documents on disk: path -> document
    repo_hashes,        \* server: repo_hashes, the Repo Hash Cache
    request,            \* the call or HTTP request last handled, or, by
                        \* number, the requests handled at the same time
    response,           \* what it returned, or what each of them returned
    gh_first,           \* get_repo_hash: data, of a first call
    gh_second,          \* get_repo_hash: data, of a second call
    gh_digests          \* the digests the two calls returned

sessionVars == <<files, config, all_data, filtered_data, current_page,
                 total_pages, current_filter, current_field, full_record,
                 last_query, number_text, user_input>>

parseVars == <<pq_query, pq_filters, pq_remaining_query>>

filterVars == <<fd_data, fd_keyword, fd_repository, fd_field, fd_filtered>>

serverVars == <<env_path, yaml_files, repo_hashes, request, response>>

hashVars == <<gh_first, gh_second, gh_digests>>

vars == <<sessionVars, pc, parseVars, filterVars, serverVars, hashVars>>

\* the variables of a part of the program that is not running
SessionIdle ==
    /\ files = <<>>
    /\ config = [local_files |-> <<>>, urls |-> <<>>]
    /\ all_data = <<>>
    /\ filtered_data = <<>>
    /\ current_page = 1
    /\ total_pages = 0
    /\ current_filter = None
    /\ current_field = None
    /\ full_record = <<>>
    /\ last_query = <<>>
    /\ number_text = <<>>
    /\ user_input = ""

ParseIdle ==
    /\ pq_query = <<>>
    /\ pq_filters = <<>>
    /\ pq_remaining_query = <<>>

FilterIdle ==
    /\ fd_data = <<>>
    /\ fd_keyword = None
    /\ fd_repository = None
    /\ fd_field = None
    /\ fd_filtered = <<>>

ServerIdle ==
    /\ env_path = <<>>
    /\ yaml_files = <<>>
    /\ repo_hashes = <<>>
    /\ request = [op |-> "none"]
    /\ response = [status |-> 0]

HashIdle ==
    /\ gh_first = <<>>
    /\ gh_second = <<>>
    /\ gh_digests = <<>>

\* ------------------------------------------------------------------------
\* Startup of the interactive session (src/cli/neosearch.py, main)
\* ------------------------------------------------------------------------
RepoContent(world, repo) ==
    IF repo \in DOMAIN world THEN world[repo] ELSE Missing

StampFilePath(entry, repo) ==
    [f \in DOMAIN entry \cup {"repository"} |->
        IF f = "repository" THEN StrVal(<<".", "/">> \o repo) ELSE entry[f]]

\* entry["repository"] = file_path
Stamp(entry, repo) ==
    [f \in DOMAIN entry \cup {"repository"} |->
        IF f = "repository" THEN StrVal(repo) ELSE entry[f]]

\* one turn of a loading loop: the stamped entries of a source that loads,
\* nothing for a source that is missing or is not JSON
LoadRepo(world, repo) ==
    LET content == RepoContent(world, repo)
    IN  IF content.t = "json"
        THEN [i \in 1..content.n |-> Stamp(FileEntry(i), repo)]
        ELSE <<>>

RECURSIVE LoadAll(_, _)
LoadAll(world, repos) ==
    IF repos = <<>> THEN <<>>
    ELSE LoadRepo(world, Head(repos)) \o LoadAll(world, Tail(repos))

InitialConfig == [local_files |-> <<J1, J2>>, urls |-> <<U1>>]

SessionInit ==
    /\ files \in Worlds
    /\ config = InitialConfig
    /\ all_data = LoadAll(files, config.local_files) \o LoadAll(files, config.urls)
    /\ current_page = 1
    /\ filtered_data = all_data
    /\ total_pages = TotalPages(Len(filtered_data), per_page)
    /\ current_filter = None
    /\ current_field = None
    /\ pc = IF filtered_data = <<>> THEN "returned" ELSE "loop"
    /\ full_record = <<>>
    /\ last_query = <<>>
    /\ number_text = <<>>
    /\ user_input = ""

\* ------------------------------------------------------------------------
\* The commands of the session loop
\* ------------------------------------------------------------------------
\* the rows display_table shows at the top of a turn of the loop
page_data == PageSlice(filtered_data, current_page, per_page)

\* what the user can type
SessionQueries ==
    {<<>>, <<"m","a","t","h">>, <<"x","y","z">>, <<"t","a","g","s","=","\"","i","n","t","r","o","\"">>, <<"x","y","z"," ","c","a","t","e","g","o","r","y","=","\"","s","c","i","\""," ","t","a","g","s","=","\"","i","n","t","r","o","\"">>}

SelectTexts == {<<"0">>, <<"1">>, <<"1","1">>, <<"x">>}

RepoNumberTexts ==
    {NumStr(i) : i \in 0..(MaxRepos + 1)} \cup {<<"-","1">>, <<"x">>}

AddNames == {J1, U1}

\* parse_query and int() on what the user can type, each computed once
ParsedQuery == [query \in SessionQueries |-> parse_query(query)]

ParsedInt == [text \in SelectTexts \cup RepoNumberTexts |-> ParseInt(text)]

CmdNext ==
    /\ pc = "loop"
    /\ UNCHANGED <<parseVars, filterVars, serverVars, hashVars>>
    /\ user_input' = "n"
    /\ current_page' = NextPage(current_page, total_pages)
    /\ UNCHANGED <<files, config, all_data, filtered_data, total_pages,
                   current_filter, current_field, pc>>
    /\ full_record' = <<>>
    /\ last_query' = <<>>
    /\ number_text' = <<>>

CmdPrev ==
    /\ pc = "loop"
    /\ UNCHANGED <<parseVars, filterVars, serverVars, hashVars>>
    /\ user_input' = "p"
    /\ current_page' = PrevPage(current_page)
    /\ UNCHANGED <<files, config, all_data, filtered_data, total_pages,
                   current_filter, current_field, pc>>
    /\ full_record' = <<>>
    /\ last_query' = <<>>
    /\ number_text' = <<>>

CmdQuit ==
    /\ pc = "loop"
    /\ UNCHANGED <<parseVars, filterVars, serverVars, hashVars>>
    /\ user_input' = "q"
    /\ pc' = "quit"
    /\ full_record' = <<>>
    /\ last_query' = <<>>
    /\ number_text' = <<>>
    /\ UNCHANGED <<files, config, all_data, filtered_data, current_page,
                   total_pages, current_filter, current_field>>

FirstFilterLatest(filters) == filters[Len(filters)]

\* list(filters.keys())[0] and its value
FirstFilter(filters) == filters[1]

CmdFilter(query) ==
    /\ pc = "loop"
    /\ UNCHANGED <<parseVars, filterVars, serverVars, hashVars>>
    /\ user_input' = "f"
    /\ LET parsed == ParsedQuery[query]
       IN  IF parsed.filters # <<>>
           THEN /\ current_field' = FirstFilter(parsed.filters)[1]
                /\ current_filter' = FirstFilter(parsed.filters)[2]
                /\ filtered_data' =
                       filter_data(all_data, current_filter', None, current_field')
           ELSE IF parsed.remaining_query # <<>>
           THEN /\ current_filter' = parsed.remaining_query
                /\ current_field' = None
                /\ filtered_data' = filter_data(all_data, current_filter', None, None)
           ELSE UNCHANGED <<current_filter, current_field, filtered_data>>
    /\ total_pages' = TotalPages(Len(filtered_data'), per_page)
    /\ current_page' = ResetPage(current_page)
    /\ UNCHANGED <<files, config, all_data, pc>>
    /\ full_record' = <<>>
    /\ last_query' = query
    /\ number_text' = <<>>

CmdClear ==
    /\ pc = "loop"
    /\ UNCHANGED <<parseVars, filterVars, serverVars, hashVars>>
    /\ user_input' = "c"
    /\ current_filter' = None
    /\ current_field' = None
    /\ filtered_data' = all_data
    /\ total_pages' = TotalPages(Len(filtered_data'), per_page)
    /\ current_page' = ResetPage(current_page)
    /\ UNCHANGED <<files, config, all_data, pc>>
    /\ full_record' = <<>>
    /\ last_query' = <<>>
    /\ number_text' = <<>>

\* display_full_record_in_table reads `console` before the function assigns
\* it whenever the index is out of range: UnboundLocalError, which main does
\* not catch, ends the program
CmdSelect(text) ==
    /\ pc = "loop"
    /\ UNCHANGED <<parseVars, filterVars, serverVars, hashVars>>
    /\ user_input' = "s"
    /\ last_query' = <<>>
    /\ number_text' = text
    /\ UNCHANGED <<files, config, all_data, filtered_data, current_page,
                   total_pages, current_filter, current_field>>
    /\ LET record_number == ParsedInt[text]
       IN  IF ~record_number.ok
           THEN /\ full_record' = <<>>
                /\ UNCHANGED pc
           ELSE IF record_number.val < 1 \/ record_number.val > Len(filtered_data)
           THEN /\ pc' = "crashed"
                /\ full_record' = <<>>
           ELSE /\ full_record' = <<filtered_data[record_number.val]>>
                /\ UNCHANGED pc

\* new_repo.endswith('.json')
EndsWith(s, suffix) ==
    Len(s) >= Len(suffix) /\ SubSeq(s, Len(s) - Len(suffix) + 1, Len(s)) = suffix

\* list.pop(i): a negative i counts from the end; ok is FALSE where Python
\* raises IndexError
PyPop(list, i) ==
    LET idx == IF i < 0 THEN i + Len(list) ELSE i
    IN  IF idx < 0 \/ idx >= Len(list) THEN [ok |-> FALSE]
        ELSE [ok |-> TRUE,
              list |-> SubSeq(list, 1, idx) \o SubSeq(list, idx + 2, Len(list))]

\* 'r', then 'a': the reference goes to local_files or to urls by its suffix
CmdReposAdd(new_repo) ==
    /\ pc = "loop"
    /\ UNCHANGED <<parseVars, filterVars, serverVars, hashVars>>
    /\ Len(config.local_files) + Len(config.urls) < MaxRepos
    /\ user_input' = "r"
    /\ config' = IF EndsWith(new_repo, <<".","j","s","o","n">>)
                 THEN [config EXCEPT !.local_files = Append(@, new_repo)]
                 ELSE [config EXCEPT !.urls = Append(@, new_repo)]
    /\ UNCHANGED <<files, all_data, filtered_data, current_page, total_pages,
                   current_filter, current_field, pc>>
    /\ full_record' = <<>>
    /\ last_query' = <<>>
    /\ number_text' = <<>>

\* the configuration after 'd' and the number typed, repo_number = int(text)
DeleteRepo(cfg, repo_number) ==
    LET nlocal == Len(cfg.local_files)
    IN  IF ~repo_number.ok THEN cfg
        ELSE IF repo_number.val <= nlocal
        THEN LET popped == PyPop(cfg.local_files, repo_number.val - 1)
             IN  IF popped.ok THEN [cfg EXCEPT !.local_files = popped.list] ELSE cfg
        ELSE LET popped == PyPop(cfg.urls, repo_number.val - 1 - nlocal)
             IN  IF popped.ok THEN [cfg EXCEPT !.urls = popped.list] ELSE cfg

CmdReposDelete(text) ==
    /\ pc = "loop"
    /\ UNCHANGED <<parseVars, filterVars, serverVars, hashVars>>
    /\ user_input' = "r"
    /\ config' = DeleteRepo(config, ParsedInt[text])
    /\ UNCHANGED <<files, all_data, filtered_data, current_page, total_pages,
                   current_filter, current_field, pc>>
    /\ full_record' = <<>>
    /\ last_query' = <<>>
    /\ number_text' = text

\* 'r', then 'q' or anything else
CmdReposReturn ==
    /\ pc = "loop"
    /\ UNCHANGED <<parseVars, filterVars, serverVars, hashVars>>
    /\ user_input' = "r"
    /\ UNCHANGED <<files, config, all_data, filtered_data, current_page,
                   total_pages, current_filter, current_field, pc>>
    /\ full_record' = <<>>
    /\ last_query' = <<>>
    /\ number_text' = <<>>

ScopedDataUnfiltered(data, keyword, field, repositories, repo_number, current) ==
    IF repo_number = 0 THEN filter_data(data, keyword, None, field)
    ELSE IF repo_number < 1 \/ repo_number > Len(repositories) THEN current
    ELSE filter_data(data, None, repositories[repo_number], None)

\* the active sequence after 'fr' and a number int() accepts
ScopedData(data, keyword, field, repositories, repo_number, current) ==
    IF repo_number = 0 THEN filter_data(data, keyword, None, field)
    ELSE IF repo_number < 1 \/ repo_number > Len(repositories) THEN current
    ELSE filter_data(data, keyword, repositories[repo_number], field)

CmdFilterRepo(text) ==
    /\ pc = "loop"
    /\ UNCHANGED <<parseVars, filterVars, serverVars, hashVars>>
    /\ user_input' = "fr"
    /\ LET repo_number == ParsedInt[text]
           repositories == config.local_files \o config.urls
       IN  IF ~repo_number.ok
           THEN UNCHANGED <<filtered_data, total_pages, current_page>>
           ELSE /\ filtered_data' =
                       ScopedData(all_data, current_filter, current_field,
                                  repositories, repo_number.val, filtered_data)
                /\ total_pages' = TotalPages(Len(filtered_data'), per_page)
                /\ current_page' = ResetPage(current_page)
    /\ UNCHANGED <<files, config, all_data, current_filter, current_field, pc>>
    /\ full_record' = <<>>
    /\ last_query' = <<>>
    /\ number_text' = text

\* any other input
CmdInvalid ==
    /\ pc = "loop"
    /\ UNCHANGED <<parseVars, filterVars, serverVars, hashVars>>
    /\ user_input' = "?"
    /\ UNCHANGED <<files, config, all_data, filtered_data, current_page,
                   total_pages, current_filter, current_field, pc>>
    /\ full_record' = <<>>
    /\ last_query' = <<>>
    /\ number_text' = <<>>

Next ==
    \/ CmdNext
    \/ CmdPrev
    \/ CmdQuit
    \/ \E query \in SessionQueries : CmdFilter(query)
    \/ CmdClear
    \/ \E text \in SelectTexts : CmdSelect(text)
    \/ \E new_repo \in AddNames : CmdReposAdd(new_repo)
    \/ \E text \in RepoNumberTexts : CmdReposDelete(text)
    \/ CmdReposReturn
    \/ \E text \in RepoNumberTexts : CmdFilterRepo(text)
    \/ CmdInvalid

Init == SessionInit /\ ParseIdle /\ FilterIdle /\ ServerIdle /\ HashIdle

Spec == Init /\ [][Next]_vars

\* ------------------------------------------------------------------------
\* parse_query on its own
\* ------------------------------------------------------------------------
Fragments ==
    {<<" ">>, <<"x">>, <<"\"">>, <<"s","c","i","e","n","c","e">>, <<"a","l","g","e","b","r","a">>, <<"d","e","s","c","r","i","p","t","i","o","n","=","\"","m","a","t","h","\"">>, <<"t","a","g","s","=","\"","p","h","y","s","i","c","s","\"">>, <<"t","a","g","s","=","\"","x","\"">>}

RECURSIVE Flatten(_)
Flatten(pieces) ==
    IF pieces = <<>> THEN <<>> ELSE Head(pieces) \o Flatten(Tail(pieces))

Queries ==
    UNION {{Flatten(pieces) : pieces \in [1..n -> Fragments]} : n \in 0..MaxPieces}

ParseInit ==
    /\ pq_query \in Queries
    /\ pq_filters = <<>>
    /\ pq_remaining_query = <<>>
    /\ pc = "call"

ParseCall ==
    /\ pc = "call"
    /\ pq_filters' = parse_query(pq_query).filters
    /\ pq_remaining_query' = parse_query(pq_query).remaining_query
    /\ pc' = "return"
    /\ UNCHANGED <<pq_query, sessionVars, filterVars, serverVars, hashVars>>

ParseNext == ParseCall

InitParse == ParseInit /\ SessionIdle /\ FilterIdle /\ ServerIdle /\ HashIdle

SpecParse == InitParse /\ [][ParseNext]_vars

\* ------------------------------------------------------------------------
\* filter_data on its own
\* ------------------------------------------------------------------------
\* an entry with no category, whose tag is spelled in capitals
EntryC ==
    [url |-> StrVal(<<"c">>), description |-> StrVal(<<"x">>),
     tags |-> ListVal(<<<<"M","A","T","H">>>>)]

EntryPool == {EntryA, EntryB, EntryC, Stamp(EntryA, J1)}

DataLists == UNION {[1..n -> EntryPool] : n \in 0..MaxData}

KeywordArgs == {None, <<>>, <<"m","a","t","h">>, <<"M","a","T","h">>, <<"i","n","t","r","o">>, <<",", " ">>}

FieldArgs == {None, TAGS, CATEGORY, DESCRIPTION, <<"x">>}

RepositoryArgs == {None, J1, J2}

FilterInit ==
    /\ fd_data \in DataLists
    /\ fd_keyword \in KeywordArgs
    /\ fd_repository \in RepositoryArgs
    /\ fd_field \in FieldArgs
    /\ fd_filtered = <<>>
    /\ pc = "call"

\* the function builds new lists and assigns to no entry
FilterCall ==
    /\ pc = "call"
    /\ fd_filtered' = filter_data(fd_data, fd_keyword, fd_repository, fd_field)
    /\ pc' = "return"
    /\ UNCHANGED <<fd_data, fd_keyword, fd_repository, fd_field>>
    /\ UNCHANGED <<sessionVars, parseVars, serverVars, hashVars>>

FilterNext == FilterCall

InitFilter == FilterInit /\ SessionIdle /\ ParseIdle /\ ServerIdle /\ HashIdle

SpecFilter == InitFilter /\ [][FilterNext]_vars

\* ------------------------------------------------------------------------
\* validate_repository (src/cli/neosearch.py and src/server/neosearch.py)
\* ------------------------------------------------------------------------
\* a URL that answers with a status that is not 2xx; Missing, for a URL, is
\* a fetch that fails
HttpError == [t |-> "status"]

StartsWith(s, prefix) ==
    Len(s) >= Len(prefix) /\ SubSeq(s, 1, Len(prefix)) = prefix

\* repo.startswith("http://") or repo.startswith("https://")
IsUrl(repo) ==
    StartsWith(repo, <<"h","t","t","p",":","/","/">>) \/ StartsWith(repo, <<"h","t","t","p","s",":","/","/">>)

\* how a block of code ends: with a value or with an exception
Returns(value) == [raised |-> FALSE, value |-> value]

Raises(exc) == [raised |-> TRUE, exc |-> exc]

\* requests.get(repo), response.raise_for_status(), response.json()
FetchJson(world, repo) ==
    LET content == RepoContent(world, repo)
    IN  IF content.t = "missing" THEN Raises("ConnectionError")
        ELSE IF content.t = "status" THEN Raises("HTTPError")
        ELSE IF content.t = "invalid" THEN Raises("JSONDecodeError")
        ELSE Returns(FileData(content.n))

\* open(repo, 'r') and json.load(file)
ReadJson(world, repo) ==
    LET content == RepoContent(world, repo)
    IN  IF content.t \in {"missing", "status"} THEN Raises("FileNotFoundError")
        ELSE IF content.t = "invalid" THEN Raises("JSONDecodeError")
        ELSE Returns(FileData(content.n))

\* os.path.exists(repo)
Exists(world, repo) == RepoContent(world, repo).t \in {"invalid", "json"}

OK == [msg |-> "OK"]

FileNotFound == [msg |-> "File not found"]

\* f"Invalid format: {str(e)}"
InvalidFormat(exc) == [msg |-> "Invalid format", exc |-> exc]

\* except Exception as e: return False, f"Invalid format: {str(e)}"
CatchAll(outcome) ==
    IF outcome.raised THEN Returns(<<FALSE, InvalidFormat(outcome.exc)>>)
    ELSE outcome

ValidateWithoutExists(world, repo) ==
    LET loaded == IF IsUrl(repo) THEN FetchJson(world, repo)
                  ELSE ReadJson(world, repo)
    IN  CatchAll(IF loaded.raised THEN loaded ELSE Returns(<<TRUE, OK>>))

\* the CLI's validate_repository: (is_valid, message)
validate_repository(world, repo) ==
    CatchAll(IF IsUrl(repo)
             THEN LET data == FetchJson(world, repo)
                  IN  IF data.raised THEN data ELSE Returns(<<TRUE, OK>>)
             ELSE IF ~Exists(world, repo)
             THEN Returns(<<FALSE, FileNotFound>>)
             ELSE LET data == ReadJson(world, repo)
                  IN  IF data.raised THEN data ELSE Returns(<<TRUE, OK>>))

\* the server's validate_repository: (is_valid, data or message)
server_validate_repository(world, repo) ==
    CatchAll(IF IsUrl(repo)
             THEN LET data == FetchJson(world, repo)
                  IN  IF data.raised THEN data
                      ELSE Returns(<<TRUE, data.value>>)
             ELSE IF ~Exists(world, repo)
             THEN Returns(<<FALSE, FileNotFound>>)
             ELSE LET data == ReadJson(world, repo)
                  IN  IF data.raised THEN data
                      ELSE Returns(<<TRUE, data.value>>))

\* ------------------------------------------------------------------------
\* get_repo_hash (src/server/neosearch.py)
\* ------------------------------------------------------------------------
\* A parsed JSON object is a dict, which keeps the order its keys were read
\* in: here a sequence of <<key, value>> pairs with distinct keys.

\* the characters of keys, in code point order
CodePoints ==
    <<"0","1","2","3","4","5","6","7","8","9">> \o UpperChars \o <<"_">>
        \o LowerChars

Ord(c) == CHOOSE i \in 1..Len(CodePoints) : CodePoints[i] = c

RECURSIVE StrLess(_, _)
\* a < b on str
StrLess(a, b) ==
    IF b = <<>> THEN FALSE
    ELSE IF a = <<>> THEN TRUE
    ELSE IF Head(a) = Head(b) THEN StrLess(Tail(a), Tail(b))
    ELSE Ord(Head(a)) < Ord(Head(b))

RECURSIVE InsertItem(_, _)
InsertItem(sorted, item) ==
    IF sorted = <<>> THEN <<item>>
    ELSE IF StrLess(item[1], Head(sorted)[1]) THEN <<item>> \o sorted
    ELSE <<Head(sorted)>> \o InsertItem(Tail(sorted), item)

KeepItems(items) == items

RECURSIVE SortItems(_)
\* sort_keys=True: the items of a dict by key
SortItems(items) ==
    IF items = <<>> THEN <<>>
    ELSE InsertItem(SortItems(SubSeq(items, 1, Len(items) - 1)),
                    items[Len(items)])

RECURSIVE Escape(_)
\* a quotation mark and a backslash are written with a backslash before
Escape(chars) ==
    IF chars = <<>> THEN <<>>
    ELSE (IF Head(chars) \in {"\"", "\\"} THEN <<"\\", Head(chars)>>
          ELSE <<Head(chars)>>) \o Escape(Tail(chars))

DumpStr(chars) == <<"\"">> \o Escape(chars) \o <<"\"">>

RECURSIVE JoinDumped(_)
\* ", ".join(parts)
JoinDumped(parts) ==
    IF parts = <<>> THEN <<>>
    ELSE Head(parts) \o (IF Len(parts) > 1 THEN <<",", " ">> ELSE <<>>)
         \o JoinDumped(Tail(parts))

\* a value of an entry: a str or a list of str
DumpValue(v) ==
    IF v.t = "str" THEN DumpStr(v.s)
    ELSE <<"[">> \o JoinDumped([i \in 1..Len(v.items) |-> DumpStr(v.items[i])])
         \o <<"]">>

DumpObject(items) ==
    LET ordered == SortItems(items)
    IN  <<"{">>
        \o JoinDumped([i \in 1..Len(ordered) |->
               DumpStr(ordered[i][1]) \o <<":", " ">> \o DumpValue(ordered[i][2])])
        \o <<"}">>

\* json.dumps(data, sort_keys=True) of a list of objects
Dumps(data) ==
    <<"[">> \o JoinDumped([i \in 1..Len(data) |-> DumpObject(data[i])]) \o <<"]">>

\* hashlib.md5(content).hexdigest(): the digest is named by the bytes it was
\* computed from, MD5 being taken as free of collisions on these contents
Md5Hex(content) == [md5 |-> content]

get_repo_hash(data) == Md5Hex(Dumps(data))

\* the dict json.load builds from an entry of a repository file, its keys in
\* the order the file has them
ToItems(entry) ==
    LET names == <<URL, DESCRIPTION, CATEGORY, TAGS, REPOSITORY>>
        present == SelectSeq(names, LAMBDA name : FieldKey(name) \in DOMAIN entry)
    IN  [i \in 1..Len(present) |-> <<present[i], entry[FieldKey(present[i])]>>]

\* ------------------------------------------------------------------------
\* get_repo_hash on its own
\* ------------------------------------------------------------------------
MaxHashObjects == 2

\* an object, the same with its keys in another order, and objects that
\* differ from it in one value
HashObjects ==
    {<<<<URL, StrVal(<<"a">>)>>, <<CATEGORY, StrVal(<<"m">>)>>, <<TAGS, ListVal(<<<<"x">>, <<"y">>>>)>>>>,
     <<<<TAGS, ListVal(<<<<"x">>, <<"y">>>>)>>, <<CATEGORY, StrVal(<<"m">>)>>, <<URL, StrVal(<<"a">>)>>>>,
     <<<<URL, StrVal(<<"a">>)>>, <<CATEGORY, StrVal(<<"n">>)>>, <<TAGS, ListVal(<<<<"x">>, <<"y">>>>)>>>>,
     <<<<URL, StrVal(<<"a">>)>>, <<CATEGORY, StrVal(<<"m">>)>>, <<TAGS, ListVal(<<<<"x","\"",","," ","\"","y">>>>)>>>>,
     <<<<CATEGORY, StrVal(<<"m">>)>>, <<URL, StrVal(<<"a">>)>>>>,
     <<<<URL, StrVal(<<"a">>)>>, <<CATEGORY, StrVal(<<"m">>)>>>>}

HashContents == UNION {[1..n -> HashObjects] : n \in 0..MaxHashObjects}

HashInit ==
    /\ gh_first \in HashContents
    /\ gh_second \in HashContents
    /\ gh_digests = <<>>
    /\ pc = "call"

HashCall ==
    /\ pc = "call"
    /\ gh_digests' = <<get_repo_hash(gh_first), get_repo_hash(gh_second)>>
    /\ pc' = "return"
    /\ UNCHANGED <<gh_first, gh_second>>
    /\ UNCHANGED <<sessionVars, parseVars, filterVars, serverVars>>

HashNext == HashCall

InitHash == HashInit /\ SessionIdle /\ ParseIdle /\ FilterIdle /\ ServerIdle

SpecHash == InitHash /\ [][HashNext]_vars

\* ------------------------------------------------------------------------
\* The HTTP service (src/server/neosearch.py)
\* ------------------------------------------------------------------------
MaxServerEntries == 2

MaxLocalFiles == 3

CONFIG_PATH == "config.yaml"

\* a path CONFIG_FILE_PATH can name
OtherPath == "other.yaml"

\* raise HTTPException(status_code=..., detail=...)
HTTPException(status_code, detail) ==
    Raises([status |-> status_code, detail |-> detail])

\* load_config reads the path the environment names, CONFIG_PATH by default
load_config(env, yaml) ==
    IF yaml[env] = Missing
    THEN HTTPException(404, "Configuration file not found.")
    ELSE Returns(yaml[env])

\* save_config writes CONFIG_PATH
save_config(env, yaml, cfg) == [yaml EXCEPT ![CONFIG_PATH] = cfg]

\* config.get("local_files", [])
LocalFiles(cfg) ==
    IF "local_files" \in DOMAIN cfg THEN cfg.local_files ELSE <<>>

InListNever(x, list) == FALSE

\* x in list
InList(x, list) == \E i \in 1..Len(list) : list[i] = x

\* config.setdefault("local_files", []).append(path)
AppendLocalFile(cfg, path) ==
    [f \in DOMAIN cfg \cup {"local_files"} |->
        IF f = "local_files" THEN Append(LocalFiles(cfg), path) ELSE cfg[f]]

\* list.remove(x): the first x goes
RemoveFirst(list, x) ==
    LET i == CHOOSE k \in 1..Len(list) :
                 list[k] = x /\ \A j \in 1..(k - 1) : list[j] # x
    IN  SubSeq(list, 1, i - 1) \o SubSeq(list, i + 1, Len(list))

\* what FastAPI answers: the value returned with status 200, or the status
\* and detail of the HTTPException raised
Answer(outcome) ==
    IF outcome.raised
    THEN [status |-> outcome.exc.status, detail |-> outcome.exc.detail]
    ELSE [status |-> 200, body |-> outcome.value]

\* the handler's outcome and the YAML documents it leaves
add_repository(env, yaml, path) ==
    LET loaded == load_config(env, yaml)
    IN  IF loaded.raised THEN [outcome |-> loaded, yaml |-> yaml]
        ELSE IF InList(path, LocalFiles(loaded.value))
        THEN [outcome |-> HTTPException(400, "Repository already exists."),
              yaml |-> yaml]
        ELSE [outcome |-> Returns([message |-> "Repository added successfully."]),
              yaml |-> save_config(env, yaml, AppendLocalFile(loaded.value, path))]

delete_repository(env, yaml, path) ==
    LET loaded == load_config(env, yaml)
    IN  IF loaded.raised THEN [outcome |-> loaded, yaml |-> yaml]
        ELSE IF ~InList(path, LocalFiles(loaded.value))
        THEN [outcome |-> HTTPException(404, "Repository not found."),
              yaml |-> yaml]
        ELSE [outcome |-> Returns([message |-> "Repository deleted successfully."]),
              yaml |-> save_config(env, yaml,
                          [loaded.value EXCEPT
                              !.local_files = RemoveFirst(@, path)])]

list_repositories(env, yaml) ==
    LET loaded == load_config(env, yaml)
    IN  IF loaded.raised THEN loaded
        ELSE Returns([repositories |-> LocalFiles(loaded.value)])

\* one turn of the loop of search: what a repository adds to results; the
\* stages are those of filter_data, written out again in the handler, on
\* the data as it was read
SearchRepo(world, repo, keyword, repository, field) ==
    LET valid == server_validate_repository(world, repo).value
    IN  IF ~valid[1] THEN <<>>
        ELSE LET data == IF IsUrl(repo) THEN FetchJson(world, repo).value
                         ELSE ReadJson(world, repo).value
             IN  RepositoryStage(KeywordStage(data, keyword, field), repository)

RECURSIVE SearchAllReversed(_, _, _, _, _)
SearchAllReversed(world, repos, keyword, repository, field) ==
    IF repos = <<>> THEN <<>>
    ELSE SearchAllReversed(world, Tail(repos), keyword, repository, field)
         \o SearchRepo(world, Head(repos), keyword, repository, field)

RECURSIVE SearchAll(_, _, _, _, _)
SearchAll(world, repos, keyword, repository, field) ==
    IF repos = <<>> THEN <<>>
    ELSE SearchRepo(world, Head(repos), keyword, repository, field)
         \o SearchAll(world, Tail(repos), keyword, repository, field)

search(env, yaml, world, keyword, repository, field) ==
    LET loaded == load_config(env, yaml)
    IN  IF loaded.raised THEN loaded
        ELSE Returns([results |->
                 SearchAll(world, LocalFiles(loaded.value), keyword,
                           repository, field)])

\* ------------------------------------------------------------------------
\* The service and the CLI's startup over one configuration and one set of
\* sources
\* ------------------------------------------------------------------------
\* config.get('urls', [])
Urls(cfg) == IF "urls" \in DOMAIN cfg THEN cfg.urls ELSE <<>>

\* the file system alone: no file is named by a URL
OnDisk(world) ==
    [repo \in DOMAIN world |-> IF IsUrl(repo) THEN Missing ELSE world[repo]]

\* the Entry Store main builds from config.yaml: local files, then URLs
EntryStore(yaml, world) ==
    LoadAll(OnDisk(world), LocalFiles(yaml[CONFIG_PATH]))
        \o LoadAll(world, Urls(yaml[CONFIG_PATH]))

\* the variables of the session, files and all_data apart
sessionRest == <<config, all_data, filtered_data, current_page, total_pages,
                 current_filter, current_field, full_record, last_query,
                 number_text, user_input>>

ServerPaths == {J1, J2, U1}

ServerConfigs ==
    {[local_files |-> <<J1, J2>>, urls |-> <<U1>>],
     [local_files |-> <<U1, J1>>, urls |-> <<>>],
     [urls |-> <<>>]}

ServerWorlds ==
    {World(Json(1), Json(MaxServerEntries), Json(1)),
     World(Missing, Json(MaxServerEntries), HttpError),
     World(Invalid, Json(MaxServerEntries), Invalid),
     World(Json(MaxServerEntries), Missing, Missing)}

SearchKeywords == {None, <<"m","a","t","h">>}

SearchFields == {None, TAGS}

SearchRepositories == {None, J1}

\* the module is imported with config.yaml in place (os.path.getmtime at
\* import); CONFIG_FILE_PATH is unset or names another path, where a
\* document may be missing
ServerInit ==
    /\ env_path \in {CONFIG_PATH, OtherPath}
    /\ yaml_files \in
          {(CONFIG_PATH :> cfg) @@ (OtherPath :> other) :
              cfg \in ServerConfigs,
              other \in {Missing, [local_files |-> <<J1>>, urls |-> <<>>]}}
    /\ env_path = CONFIG_PATH => yaml_files[OtherPath] = Missing
    /\ files \in ServerWorlds
    /\ repo_hashes = <<>>
    /\ request = [op |-> "none"]
    /\ response = [status |-> 0]
    /\ pc = "starting"

ServerFrame == UNCHANGED <<env_path, files, repo_hashes, pc, sessionRest,
                           parseVars, filterVars, hashVars>>

\* startup_event: a BackgroundTasks object is made, background_task is
\* added to it, and the function returns. The object is local and is never
\* attached to a response, so nothing runs the task it holds; background_task
\* has no other caller.
StartupEvent ==
    /\ pc = "starting"
    /\ pc' = "serving"
    /\ request' = [op |-> "startup", background |-> <<"background_task">>]
    /\ response' = [status |-> 0]
    /\ UNCHANGED <<yaml_files, env_path, files, repo_hashes, sessionRest,
                   parseVars, filterVars, hashVars>>

AddRepository(path) ==
    /\ pc = "serving"
    /\ Len(LocalFiles(yaml_files[CONFIG_PATH])) < MaxLocalFiles
    /\ request' = [op |-> "add", path |-> path]
    /\ response' = Answer(add_repository(env_path, yaml_files, path).outcome)
    /\ yaml_files' = add_repository(env_path, yaml_files, path).yaml
    /\ ServerFrame

DeleteRepository(path) ==
    /\ pc = "serving"
    /\ request' = [op |-> "delete", path |-> path]
    /\ response' = Answer(delete_repository(env_path, yaml_files, path).outcome)
    /\ yaml_files' = delete_repository(env_path, yaml_files, path).yaml
    /\ ServerFrame

ListRepositories ==
    /\ pc = "serving"
    /\ request' = [op |-> "list"]
    /\ response' = Answer(list_repositories(env_path, yaml_files))
    /\ UNCHANGED yaml_files
    /\ ServerFrame

Search(keyword, repository, field) ==
    /\ pc = "serving"
    /\ request' = [op |-> "search", keyword |-> keyword,
                   repository |-> repository, field |-> field]
    /\ response' = Answer(search(env_path, yaml_files, files, keyword,
                                 repository, field))
    /\ UNCHANGED yaml_files
    /\ ServerFrame

\* validate_repository called on a reference, in its two variants
ValidateRepository(repo) ==
    /\ pc = "serving"
    /\ request' = [op |-> "validate", repo |-> repo]
    /\ response' = [cli |-> validate_repository(files, repo),
                    server |-> server_validate_repository(files, repo)]
    /\ UNCHANGED yaml_files
    /\ ServerFrame

\* the CLI starts in the same directory: without config.yaml it returns,
\* with it it builds the Entry Store
CliStartup ==
    /\ pc = "serving"
    /\ request' = [op |-> "cli"]
    /\ response' = IF yaml_files[CONFIG_PATH] = Missing
                   THEN [returned |-> TRUE]
                   ELSE [returned |-> FALSE,
                         all_data |-> EntryStore(yaml_files, files)]
    /\ UNCHANGED yaml_files
    /\ ServerFrame

ServerNext ==
    \/ StartupEvent
    \/ \E path \in ServerPaths : AddRepository(path)
    \/ \E path \in ServerPaths : DeleteRepository(path)
    \/ ListRepositories
    \/ \E keyword \in SearchKeywords, repository \in SearchRepositories,
          field \in SearchFields : Search(keyword, repository, field)
    \/ \E repo \in ServerPaths : ValidateRepository(repo)
    \/ CliStartup

InitServer ==
    /\ ServerInit
    /\ config = [local_files |-> <<>>, urls |-> <<>>]
    /\ all_data = <<>>
    /\ filtered_data = <<>>
    /\ current_page = 1
    /\ total_pages = 0
    /\ current_filter = None
    /\ current_field = None
    /\ full_record = <<>>
    /\ last_query = <<>>
    /\ number_text = <<>>
    /\ user_input = ""
    /\ ParseIdle
    /\ FilterIdle
    /\ HashIdle

SpecServer == InitServer /\ [][ServerNext]_vars

\* the service goes on: it finishes its startup and keeps answering requests
SpecServerLive == SpecServer /\ WF_vars(ServerNext)

\* ------------------------------------------------------------------------
\* The Change Detector (src/server/neosearch.py, check_repo_changes)
\* ------------------------------------------------------------------------
\* get_repo_hash(message), message being the data validate_repository read
RepoHash(data) == get_repo_hash([i \in 1..Len(data) |-> ToItems(data[i])])

\* the digest of each content a repository can have, computed once
DigestOfEntries == [n \in 0..MaxServerEntries |-> RepoHash(FileData(n))]

\* repo_hashes[repo] = repo_hash
SetHash(hashes, repo, repo_hash) ==
    [r \in DOMAIN hashes \cup {repo} |->
        IF r = repo THEN repo_hash ELSE hashes[r]]

RECURSIVE SeedSignals(_, _, _)
SeedSignals(world, repos, hashes) ==
    IF repos = <<>> THEN [changed |-> FALSE, hashes |-> hashes]
    ELSE LET repo == Head(repos)
             valid == server_validate_repository(world, repo).value
         IN  IF ~valid[1] THEN SeedSignals(world, Tail(repos), hashes)
             ELSE LET repo_hash == DigestOfEntries[Len(valid[2])]
                  IN  IF repo \notin DOMAIN hashes \/ hashes[repo] # repo_hash
                      THEN [changed |-> TRUE,
                            hashes |-> SetHash(hashes, repo, repo_hash)]
                      ELSE SeedSignals(world, Tail(repos), hashes)

RECURSIVE check_repo_changes(_, _, _)
\* the loop over config.get("local_files", []) from repos on: the value
\* returned and the cache it leaves; the return inside the loop ends it
check_repo_changes(world, repos, hashes) ==
    IF repos = <<>> THEN [changed |-> FALSE, hashes |-> hashes]
    ELSE LET repo == Head(repos)
             valid == server_validate_repository(world, repo).value
         IN  IF ~valid[1] THEN check_repo_changes(world, Tail(repos), hashes)
             ELSE LET repo_hash == DigestOfEntries[Len(valid[2])]
                  IN  IF repo \notin DOMAIN hashes
                      THEN check_repo_changes(world, Tail(repos),
                                              SetHash(hashes, repo, repo_hash))
                      ELSE IF hashes[repo] # repo_hash
                      THEN [changed |-> TRUE,
                            hashes |-> SetHash(hashes, repo, repo_hash)]
                      ELSE check_repo_changes(world, Tail(repos), hashes)

\* what a repository can hold
RepoContents == {Missing, Invalid, Json(1), Json(MaxServerEntries)}

DetectorConfigs ==
    {[local_files |-> <<J1, J2>>, urls |-> <<U1>>],
     [local_files |-> <<J2, U1, J1>>, urls |-> <<>>],
     [urls |-> <<>>]}

DetectorInit ==
    /\ env_path = CONFIG_PATH
    /\ yaml_files \in {(CONFIG_PATH :> cfg) @@ (OtherPath :> Missing) :
                          cfg \in DetectorConfigs}
    /\ files \in {World(Json(1), Json(1), Json(1)),
                  World(Missing, Json(MaxServerEntries), HttpError)}
    /\ repo_hashes = <<>>
    /\ request = [op |-> "none"]
    /\ response = [status |-> 0]
    /\ pc = "detecting"

DetectorFrame == UNCHANGED <<env_path, yaml_files, pc, sessionRest,
                             parseVars, filterVars, hashVars>>

\* check_repo_changes(load_config()), as background_task calls it
CheckRepoChanges ==
    /\ pc = "detecting"
    /\ request' = [op |-> "check", before |-> repo_hashes]
    /\ LET result == check_repo_changes(
                         files,
                         LocalFiles(load_config(env_path, yaml_files).value),
                         repo_hashes)
       IN  /\ response' = [changed |-> result.changed]
           /\ repo_hashes' = result.hashes
    /\ UNCHANGED files
    /\ DetectorFrame

\* somebody else rewrites, removes or restores a repository
RepoModified(repo, content) ==
    /\ pc = "detecting"
    /\ files[repo] # content
    /\ files' = [files EXCEPT ![repo] = content]
    /\ request' = [op |-> "modified", repo |-> repo]
    /\ response' = [status |-> 0]
    /\ UNCHANGED repo_hashes
    /\ DetectorFrame

DetectorNext ==
    \/ CheckRepoChanges
    \/ \E repo \in {J1, J2}, content \in RepoContents :
          RepoModified(repo, content)

InitDetector ==
    /\ DetectorInit
    /\ config = [local_files |-> <<>>, urls |-> <<>>]
    /\ all_data = <<>>
    /\ filtered_data = <<>>
    /\ current_page = 1
    /\ total_pages = 0
    /\ current_filter = None
    /\ current_field = None
    /\ full_record = <<>>
    /\ last_query = <<>>
    /\ number_text = <<>>
    /\ user_input = ""
    /\ ParseIdle
    /\ FilterIdle
    /\ HashIdle

SpecDetector == InitDetector /\ [][DetectorNext]_vars

\* ------------------------------------------------------------------------
\* Properties of the interactive session (specification Spec)
\* ------------------------------------------------------------------------
Max(a, b) == IF a > b THEN a ELSE b

Min(a, b) == IF a < b THEN a ELSE b

\* C1: after any sequence of commands the page is within bounds:
\* 1 <= current_page <= max(total_pages, 1).
PageWithinBounds ==
    /\ 1 <= current_page
    /\ current_page <= Max(total_pages, 1)

\* 'n' has taken the session to the last of three pages
PageWithinBounds_witness ==
    /\ user_input = "n"
    /\ total_pages = 3
    /\ current_page = 3

\* C2: a step of 'f', 'c' or 'fr' that changes the active sequence ends on
\* page 1.
PageResetOnChange ==
    [][(user_input' \in {"f", "c", "fr"} /\ filtered_data' # filtered_data)
          => current_page' = 1]_vars

\* 'fr' has narrowed the sequence to one repository of more than one page
PageResetOnChange_witness ==
    /\ user_input = "fr"
    /\ Len(filtered_data) < Len(all_data)
    /\ total_pages = 2
    /\ current_page = 1

\* C3: 'n' on the last page (or with no page at all) and 'p' on page 1 change
\* neither the page, the page count, the filter state nor the active sequence.
NavigationNoOp ==
    [][((user_input' = "n" /\ current_page >= total_pages)
        \/ (user_input' = "p" /\ current_page = 1))
          => UNCHANGED <<current_page, total_pages, current_filter,
                         current_field, filtered_data>>]_vars

\* the example: 5 entries on one page, and 'n' was the command
NavigationNoOp_witness ==
    /\ user_input = "n"
    /\ Len(filtered_data) = 5
    /\ total_pages = 1
    /\ current_page = 1

\* C4: total_pages is the ceiling of len(active sequence) / per_page: the
\* least number of pages of per_page rows that hold every entry, 0 for none.
TotalPagesIsCeiling ==
    /\ total_pages >= 0
    /\ total_pages * per_page >= Len(filtered_data)
    /\ (total_pages - 1) * per_page < Len(filtered_data)
    /\ filtered_data = <<>> => total_pages = 0
    /\ Len(filtered_data) = 1 => total_pages = 1
    /\ Len(filtered_data) = 21 => total_pages = 3

\* 21 entries make 3 pages when 'c' recomputes the count
TotalPagesIsCeiling_witness ==
    /\ user_input = "c"
    /\ Len(filtered_data) = 21
    /\ total_pages = 3

RECURSIVE ConcatPages(_, _)
\* the slices of pages 1..p, one after the other
ConcatPages(data, p) ==
    IF p = 0 THEN <<>>
    ELSE ConcatPages(data, p - 1) \o PageSlice(data, p, per_page)

\* C5: page p shows the entries at positions (p-1)*per_page+1 ..
\* min(p*per_page, count) in order; every page 1..total_pages shows between
\* 1 and per_page entries, and the pages together are the active sequence.
PagesPartitionSequence ==
    /\ \A p \in 1..total_pages :
          LET first == (p - 1) * per_page + 1
              last == Min(p * per_page, Len(filtered_data))
              slice == PageSlice(filtered_data, p, per_page)
          IN  /\ Len(slice) = last - first + 1
              /\ Len(slice) >= 1
              /\ Len(slice) <= per_page
              /\ \A k \in 1..Len(slice) : slice[k] = filtered_data[first + k - 1]
    /\ ConcatPages(filtered_data, total_pages) = filtered_data
    /\ pc = "loop" /\ total_pages > 0 =>
          page_data = SubSeq(filtered_data, (current_page - 1) * per_page + 1,
                             Min(current_page * per_page, Len(filtered_data)))

\* the third page of 21 entries is on display and holds the one last entry
PagesPartitionSequence_witness ==
    /\ pc = "loop"
    /\ Len(filtered_data) = 21
    /\ current_page = 3
    /\ page_data = <<filtered_data[21]>>

\* ------------------------------------------------------------------------
\* Properties of filter_data (specification SpecFilter)
\* ------------------------------------------------------------------------
\* k is contained in s when case is ignored
CIContains(k, s) ==
    \E off \in 0..(Len(s) - Len(k)) :
        \A i \in 1..Len(k) : LowerChar(k[i]) = LowerChar(s[off + i])

\* the elements of data at the positions in I, in order
Pick(data, I) ==
    LET F[n \in 0..Len(data)] ==
            IF n = 0 THEN <<>>
            ELSE IF n \in I THEN Append(F[n - 1], data[n]) ELSE F[n - 1]
    IN  F[Len(data)]

IsSubsequence(part, whole) ==
    \E I \in SUBSET (1..Len(whole)) : part = Pick(whole, I)

\* C6: with a keyword and no field, filter_data returns exactly the entries
\* with some field whose string representation contains the keyword, case
\* ignored; for the two-entry example and "math" that is entry a alone.
GlobalScanExact ==
    (pc = "return" /\ Truthy(fd_keyword) /\ fd_field = None
        /\ fd_repository = None) =>
        /\ fd_filtered =
              Pick(fd_data,
                   {n \in 1..Len(fd_data) :
                       \E f \in DOMAIN fd_data[n] :
                           CIContains(fd_keyword, PyStr(fd_data[n][f]))})
        /\ (fd_data = <<EntryA, EntryB>> /\ fd_keyword = <<"m","a","t","h">>)
              => fd_filtered = <<EntryA>>

\* the two-entry example, searched for "math" in capitals and small letters
GlobalScanExact_witness ==
    /\ pc = "return"
    /\ fd_data = <<EntryA, EntryB>>
    /\ fd_keyword = <<"M","a","T","h">>
    /\ fd_field = None
    /\ fd_repository = None
    /\ fd_filtered = <<EntryA>>

\* C7: with a keyword and a field, filter_data returns exactly the entries
\* that have the field and match on it: some element of tags contains the
\* keyword, or the string representation of another field does, case
\* ignored; an entry without the field is left out.
FieldScanExact ==
    (pc = "return" /\ Truthy(fd_keyword) /\ Truthy(fd_field)
        /\ fd_repository = None) =>
        fd_filtered =
            Pick(fd_data,
                 {n \in 1..Len(fd_data) :
                     /\ FieldKey(fd_field) \in DOMAIN fd_data[n]
                     /\ IF fd_field = TAGS
                        THEN \E i \in 1..Len(fd_data[n].tags.items) :
                                 CIContains(fd_keyword, fd_data[n].tags.items[i])
                        ELSE CIContains(fd_keyword,
                                        PyStr(fd_data[n][FieldKey(fd_field)]))})

\* an entry without tags is left out, one whose tag differs in case is kept
FieldScanExact_witness ==
    /\ pc = "return"
    /\ fd_data = <<EntryB, EntryC>>
    /\ fd_keyword = <<"M","a","T","h">>
    /\ fd_field = TAGS
    /\ fd_repository = None
    /\ fd_filtered = <<EntryC>>

\* C8: for every keyword, field and repository the result is a subsequence
\* of the input, the input itself when neither a keyword nor a repository is
\* given, and the call leaves the input as it was.
FilterKeepsOrderAndInput ==
    /\ [](pc = "return" =>
            /\ IsSubsequence(fd_filtered, fd_data)
            /\ (~Truthy(fd_keyword) /\ ~Truthy(fd_repository))
                  => fd_filtered = fd_data)
    /\ [][fd_data' = fd_data]_vars

\* a keyword and a repository together keep the second of two entries
FilterKeepsOrderAndInput_witness ==
    /\ pc = "return"
    /\ fd_data = <<EntryA, Stamp(EntryA, J1)>>
    /\ fd_keyword = <<"m","a","t","h">>
    /\ fd_repository = J1
    /\ fd_filtered = <<Stamp(EntryA, J1)>>

\* ------------------------------------------------------------------------
\* Properties of parse_query (specification SpecParse)
\* ------------------------------------------------------------------------
\* the query without the characters of the recognized tokens
WithoutTokens(query) ==
    LET matches == FindAll(query)
    IN  Pick(query,
             {n \in 1..Len(query) :
                 ~\E m \in 1..Len(matches) :
                     matches[m].start <= n /\ n <= matches[m].end})

\* C9: the residual is the query with the recognized tokens removed and no
\* whitespace at either end, also for a query with no token.
ResidualIsTrimmedRest ==
    pc = "return" => pq_remaining_query = Strip(WithoutTokens(pq_query))

\* C10: filters has one key per field name of a recognized token, with the
\* value of the last token of that name, and is empty for a query with no
\* token; the three examples parse as stated.
FiltersLastSeenWins ==
    pc = "return" =>
        LET matches == FindAll(pq_query)
            n == Len(pq_filters)
        IN  /\ {pq_filters[i][1] : i \in 1..n}
                  = {matches[m].field : m \in 1..Len(matches)}
            /\ \A i, j \in 1..n : pq_filters[i][1] = pq_filters[j][1] => i = j
            /\ \A i \in 1..n :
                  \E m \in 1..Len(matches) :
                      /\ matches[m].field = pq_filters[i][1]
                      /\ matches[m].value = pq_filters[i][2]
                      /\ \A later \in (m + 1)..Len(matches) :
                            matches[later].field # pq_filters[i][1]
            /\ pq_query = <<"s","c","i","e","n","c","e">>
                  => pq_filters = <<>> /\ pq_remaining_query = <<"s","c","i","e","n","c","e">>
            /\ pq_query = <<"d","e","s","c","r","i","p","t","i","o","n","=","\"","m","a","t","h","\"">>
                  => /\ pq_filters = <<<<DESCRIPTION, <<"m","a","t","h">>>>>>
                     /\ pq_remaining_query = <<>>
            /\ pq_query = <<"a","l","g","e","b","r","a"," ","t","a","g","s","=","\"","p","h","y","s","i","c","s","\"">>
                  => /\ pq_filters = <<<<TAGS, <<"p","h","y","s","i","c","s">>>>>>
                     /\ pq_remaining_query = <<"a","l","g","e","b","r","a">>

\* tags is given twice and the second value is the one kept
FiltersLastSeenWins_witness ==
    /\ pc = "return"
    /\ pq_query = <<"t","a","g","s","=","\"","p","h","y","s","i","c","s","\"","t","a","g","s","=","\"","x","\"">>
    /\ pq_filters = <<<<TAGS, <<"x">>>>>>

\* ------------------------------------------------------------------------
\* Properties of the 'f' command (specification Spec)
\* ------------------------------------------------------------------------
\* the entries of data that have the field and match the value on it
ScopedTo(data, field, value) ==
    Pick(data,
         {n \in 1..Len(data) :
             /\ FieldKey(field) \in DOMAIN data[n]
             /\ IF field = TAGS
                THEN \E i \in 1..Len(data[n].tags.items) :
                         CIContains(value, data[n].tags.items[i])
                ELSE CIContains(value, PyStr(data[n][FieldKey(field)]))})

\* for each text the user can type: whether it has a token, the field of
\* its first token and the value of the last token of that field
FirstToken ==
    [q \in SessionQueries |->
        LET matches == FindAll(q)
        IN  IF matches = <<>> THEN [any |-> FALSE]
            ELSE LET last == CHOOSE m \in 1..Len(matches) :
                                 /\ matches[m].field = matches[1].field
                                 /\ \A later \in (m + 1)..Len(matches) :
                                       matches[later].field # matches[1].field
                 IN  [any |-> TRUE, field |-> matches[1].field,
                      value |-> matches[last].value]]

\* C11: when 'f' reads a query with field="value" tokens, the field of the
\* first token with the value of its last token becomes the one filter, and
\* the active sequence is the Entry Store scoped to that field alone: no
\* other field, no residual text and no earlier filter takes part.
SingleScopedFilter ==
    [][(user_input' = "f" /\ FirstToken[last_query'].any) =>
          \E token \in {FirstToken[last_query']} :
              /\ current_field' = token.field
              /\ current_filter' = token.value
              /\ filtered_data' = ScopedTo(all_data, token.field, token.value)
      ]_vars

\* a query with residual text and two fields scopes 21 entries to the 10 of
\* category "sci", none of which has tags
SingleScopedFilter_witness ==
    /\ user_input = "f"
    /\ last_query = <<"x","y","z"," ","c","a","t","e","g","o","r","y","=","\"","s","c","i","\""," ","t","a","g","s","=","\"","i","n","t","r","o","\"">>
    /\ current_field = CATEGORY
    /\ current_filter = <<"s","c","i">>
    /\ Len(all_data) = 21
    /\ Len(filtered_data) = 10
    /\ "tags" \notin DOMAIN filtered_data[1]

\* the input of the turn is one the session rejects: an unrecognized
\* command, a record or repository number int() refuses, or, in 'fr', a
\* number that is neither 0 nor the position of a repository
InvalidInput ==
    \/ user_input' = "?"
    \/ user_input' = "s" /\ ~ParsedInt[number_text'].ok
    \/ /\ user_input' = "fr"
       /\ \E repo_number \in {ParsedInt[number_text']} :
              \/ ~repo_number.ok
              \/ repo_number.val < 0
              \/ repo_number.val > Len(config.local_files) + Len(config.urls)

\* C19: an invalid input (an unrecognized command, a non-numeric record or
\* repository number, a repository number out of range in 'fr') leaves
\* current_filter, current_field, current_page, total_pages and the active
\* sequence as they were.
InvalidInputLeavesState ==
    [][InvalidInput =>
          UNCHANGED <<current_filter, current_field, current_page,
                      total_pages, filtered_data>>
      ]_vars

\* the repositories as 'r' and 'fr' list them, numbered from 1
Numbered(cfg) == cfg.local_files \o cfg.urls

\* a sequence without its k-th element
WithoutKth(list, k) == SubSeq(list, 1, k - 1) \o SubSeq(list, k + 1, Len(list))

\* C24: in 'r' then 'd', a number k with 1 <= k <= N removes exactly the
\* k-th listed repository, from the list it belongs to; any other text
\* (0, a negative number, a number above N, no number) leaves the
\* configuration as it was.
DeleteRemovesKth ==
    [][(user_input' = "r" /\ number_text' # <<>>) =>
          \E repo_number \in {ParsedInt[number_text']} :
              IF repo_number.ok /\ repo_number.val >= 1
                               /\ repo_number.val <= Len(Numbered(config))
              THEN /\ Numbered(config') = WithoutKth(Numbered(config), repo_number.val)
                   /\ Len(config'.local_files) =
                          IF repo_number.val <= Len(config.local_files)
                          THEN Len(config.local_files) - 1
                          ELSE Len(config.local_files)
              ELSE config' = config
      ]_vars

\* C28: 's' with the number k of a row of the table shows the entry that
\* row k of the current page shows.
SelectShowsRowOfPage ==
    (user_input = "s" /\ pc = "loop" /\ ParsedInt[number_text].ok) =>
        \A k \in 1..Len(page_data) :
            ParsedInt[number_text].val = k => full_record = <<page_data[k]>>

\* every entry of a sequence carries the stamp of one repository
OnlyFrom(data, repo) ==
    \A i \in 1..Len(data) : data[i].repository = StrVal(repo)

\* C22: a repository R selected with 'fr' stays the scope of the session:
\* an 'f' query applied right after the selection gives an active sequence
\* of entries stamped R only.
ScopeSurvivesFilter ==
    [][(/\ user_input = "fr"
        /\ ParsedInt[number_text].ok
        /\ ParsedInt[number_text].val >= 1
        /\ ParsedInt[number_text].val <= Len(Numbered(config))
        /\ user_input' = "f") =>
          OnlyFrom(filtered_data', Numbered(config)[ParsedInt[number_text].val])
      ]_vars

\* ------------------------------------------------------------------------
\* Properties of get_repo_hash (specification SpecHash)
\* ------------------------------------------------------------------------
\* the mapping an object is, whatever the order of its keys
AsMapping(items) ==
    [key \in {items[i][1] : i \in 1..Len(items)} |->
        items[CHOOSE i \in 1..Len(items) : items[i][1] = key][2]]

SameContent(a, b) ==
    /\ Len(a) = Len(b)
    /\ \A i \in 1..Len(a) : AsMapping(a[i]) = AsMapping(b[i])

\* C13: two contents that differ only in the order of the keys of their
\* objects have the same digest, and two contents that differ in a value
\* have different digests.
HashIgnoresKeyOrder ==
    pc = "return" =>
        (gh_digests[1] = gh_digests[2] <=> SameContent(gh_first, gh_second))

\* the same object with its keys in two orders, one digest
HashIgnoresKeyOrder_witness ==
    /\ pc = "return"
    /\ Len(gh_first) = 1
    /\ Len(gh_second) = 1
    /\ gh_first # gh_second
    /\ SameContent(gh_first, gh_second)
    /\ gh_digests[1] = gh_digests[2]

\* ------------------------------------------------------------------------
\* Properties of the service (specification SpecServer)
\* ------------------------------------------------------------------------
\* C12: validate_repository raises nothing; a path that does not exist
\* gives (False, "File not found"); a file that is not JSON, and a URL whose
\* fetch fails, answers with an error status or has a body that is not
\* JSON, give (False, "Invalid format: ..."); a source that reads and parses
\* gives True, with "OK" in the CLI and the parsed data in the server.
ValidateClassifies ==
    request.op = "validate" =>
        LET content == files[request.repo]
            url == request.repo = U1
            cli == response.cli
            server == response.server
        IN  /\ ~cli.raised
            /\ ~server.raised
            /\ (~url /\ content = Missing) =>
                  /\ cli.value = <<FALSE, [msg |-> "File not found"]>>
                  /\ server.value = <<FALSE, [msg |-> "File not found"]>>
            /\ ((~url /\ content = Invalid)
                    \/ (url /\ content \in {Missing, HttpError, Invalid})) =>
                  /\ ~cli.value[1]
                  /\ cli.value[2].msg = "Invalid format"
                  /\ ~server.value[1]
                  /\ server.value[2].msg = "Invalid format"
            /\ content.t = "json" =>
                  /\ cli.value = <<TRUE, [msg |-> "OK"]>>
                  /\ server.value = <<TRUE, FileData(content.n)>>

\* a path that does not exist is reported as not found
ValidateClassifies_witness ==
    /\ request.op = "validate"
    /\ request.repo = J1
    /\ files[J1] = Missing
    /\ response.cli.value = <<FALSE, [msg |-> "File not found"]>>
    /\ response.server.value = <<FALSE, [msg |-> "File not found"]>>

\* the document the handlers load, and whether a path is listed in it
Loaded == yaml_files[env_path]

Listed(cfg, path) ==
    \E i \in 1..Len(LocalFiles(cfg)) : LocalFiles(cfg)[i] = path

\* C16: adding a path already listed fails with 400 "Repository already
\* exists.", deleting a path not listed fails with 404 "Repository not
\* found.", a missing configuration file gives 404, and in each of these
\* cases the stored configuration stays as it was.
ErrorsLeaveConfig ==
    [][/\ (request'.op = "add" /\ Loaded # Missing
              /\ Listed(Loaded, request'.path)) =>
              response' = [status |-> 400,
                           detail |-> "Repository already exists."]
       /\ (request'.op = "delete" /\ Loaded # Missing
              /\ ~Listed(Loaded, request'.path)) =>
              response' = [status |-> 404, detail |-> "Repository not found."]
       /\ (request'.op \in {"add", "delete", "list", "search"}
              /\ Loaded = Missing) =>
              response' = [status |-> 404,
                           detail |-> "Configuration file not found."]
       /\ (request'.op \in {"add", "delete", "list", "search"}
              /\ response'.status \in {400, 404}) =>
              yaml_files' = yaml_files
      ]_vars

\* a second add of a listed path is refused
ErrorsLeaveConfig_witness ==
    /\ request.op = "add"
    /\ Listed(Loaded, request.path)
    /\ response = [status |-> 400, detail |-> "Repository already exists."]

\* no path is listed twice
NoDuplicates(list) ==
    \A i, j \in 1..Len(list) : list[i] = list[j] => i = j

\* C17: an add of a path not listed succeeds and the list then has the
\* path; a delete of a listed path succeeds and the list no longer has it,
\* leaving the other paths in their order; a list without duplicates stays
\* without duplicates.
AddDeleteRoundTrip ==
    [][/\ (request'.op = "add" /\ Loaded # Missing
              /\ ~Listed(Loaded, request'.path)) =>
              /\ response'.status = 200
              /\ LocalFiles(yaml_files'[env_path])
                    = Append(LocalFiles(Loaded), request'.path)
       /\ (request'.op = "delete" /\ Loaded # Missing
              /\ Listed(Loaded, request'.path)) =>
              /\ response'.status = 200
              /\ ~Listed(yaml_files'[env_path], request'.path)
              /\ IsSubsequence(LocalFiles(yaml_files'[env_path]),
                               LocalFiles(Loaded))
              /\ Len(LocalFiles(yaml_files'[env_path]))
                    = Len(LocalFiles(Loaded)) - 1
       /\ (Loaded # Missing /\ NoDuplicates(LocalFiles(Loaded))) =>
              (yaml_files'[env_path] # Missing
                  /\ NoDuplicates(LocalFiles(yaml_files'[env_path])))
      ]_vars


\* the entries a source holds: none when it is missing or is not JSON
SourceEntries(world, repo) ==
    IF world[repo].t = "json" THEN FileData(world[repo].n) ELSE <<>>

RECURSIVE Offset(_, _)
\* how many elements come before the i-th part
Offset(parts, i) ==
    IF i = 1 THEN 0 ELSE Offset(parts, i - 1) + Len(parts[i - 1])

\* whole is the parts one after the other
IsConcatOf(whole, parts) ==
    /\ Len(whole) = Offset(parts, Len(parts) + 1)
    /\ \A i \in 1..Len(parts) :
          \A j \in 1..Len(parts[i]) : whole[Offset(parts, i) + j] = parts[i][j]

\* what the CLI loads from a reference listed as a local file or as a URL
CliPart(world, repo, listed_as) ==
    IF listed_as = "file" /\ repo = U1 THEN <<>>
    ELSE [j \in 1..Len(SourceEntries(world, repo)) |->
             Stamp(SourceEntries(world, repo)[j], repo)]

\* C18: a configured repository that is missing or is not JSON adds no entry
\* and aborts neither the search nor the CLI's load: the search answers 200
\* with, in configuration order, entries of the repositories that validate
\* (all of them when nothing is filtered), and the CLI's Entry Store is the
\* stamped entries of the sources that load, local files first, then URLs.
FailuresIsolated ==
    /\ (request.op = "search" /\ Loaded # Missing) =>
          LET whole == [i \in 1..Len(LocalFiles(Loaded)) |->
                           SourceEntries(files, LocalFiles(Loaded)[i])]
          IN  /\ response.status = 200
              /\ (~Truthy(request.keyword) /\ ~Truthy(request.repository)) =>
                    IsConcatOf(response.body.results, whole)
              /\ IsSubsequence(response.body.results, Flatten(whole))
    /\ (request.op = "cli" /\ yaml_files[CONFIG_PATH] # Missing) =>
          LET cfg == yaml_files[CONFIG_PATH]
              local == [i \in 1..Len(LocalFiles(cfg)) |->
                           CliPart(files, LocalFiles(cfg)[i], "file")]
              remote == [i \in 1..Len(Urls(cfg)) |->
                            CliPart(files, Urls(cfg)[i], "url")]
          IN  /\ ~response.returned
              /\ IsConcatOf(response.all_data, local \o remote)

\* a search over a file that is not JSON and a file that is
FailuresIsolated_witness ==
    /\ request.op = "search"
    /\ ~Truthy(request.keyword)
    /\ ~Truthy(request.repository)
    /\ Loaded # Missing
    /\ LocalFiles(Loaded) = <<J1, J2>>
    /\ files[J1] = Invalid
    /\ response.status = 200
    /\ response.body.results = FileData(MaxServerEntries)

\* an entry without the stamp the CLI adds
Unstamped(entry) == [f \in DOMAIN entry \ {"repository"} |-> entry[f]]

\* C20: over the same local files, the search returns the entries that
\* filter_data returns on the CLI's stamped Entry Store for the same
\* keyword, field and repository, in the same order.
SearchEqualsCliFilter ==
    (request.op = "search" /\ Loaded # Missing
        /\ \A i \in 1..Len(LocalFiles(Loaded)) : LocalFiles(Loaded)[i] # U1) =>
        LET store == LoadAll(files, LocalFiles(Loaded))
            expected == filter_data(store, request.keyword,
                                    request.repository, request.field)
        IN  /\ response.status = 200
            /\ response.body.results
                  = [i \in 1..Len(expected) |-> Unstamped(expected[i])]


\* ------------------------------------------------------------------------
\* Properties of the Change Detector (specification SpecDetector)
\* ------------------------------------------------------------------------
\* the local repositories the loaded configuration lists
Configured == LocalFiles(yaml_files[env_path])

\* a repository validates when its content is a JSON document
Validates(world, repo) == world[repo].t = "json"

\* the digest of what a repository holds
FreshHash(world, repo) == RepoHash(FileData(world[repo].n))

\* C14: check_repo_changes returns true exactly when some configured local
\* repository that validates has a cached hash other than its fresh one; a
\* repository first seen enters the cache without signalling; a repository
\* that does not validate signals nothing and keeps its cache entry.
ChangeSignalExact ==
    [][request'.op = "check" =>
          /\ response'.changed <=>
                \E i \in 1..Len(Configured) :
                    /\ Validates(files, Configured[i])
                    /\ Configured[i] \in DOMAIN repo_hashes
                    /\ repo_hashes[Configured[i]] # FreshHash(files, Configured[i])
          /\ ~response'.changed =>
                \A i \in 1..Len(Configured) :
                    (Validates(files, Configured[i])
                        /\ Configured[i] \notin DOMAIN repo_hashes) =>
                        /\ Configured[i] \in DOMAIN repo_hashes'
                        /\ repo_hashes'[Configured[i]]
                              = FreshHash(files, Configured[i])
          /\ \A repo \in RepoNames :
                ~Validates(files, repo) =>
                    /\ repo \in DOMAIN repo_hashes' <=> repo \in DOMAIN repo_hashes
                    /\ repo \in DOMAIN repo_hashes =>
                          repo_hashes'[repo] = repo_hashes[repo]
      ]_vars

\* a call that finds the first repository rewritten since it was cached
ChangeSignalExact_witness ==
    /\ request.op = "check"
    /\ response.changed
    /\ J1 \in DOMAIN request.before
    /\ request.before[J1] # repo_hashes[J1]
    /\ repo_hashes[J1] = FreshHash(files, J1)

\* C15: after a call of check_repo_changes, whatever it returned, the cache
\* holds the fresh hash of every configured local repository that validates.
CacheFreshAfterCheck ==
    request.op = "check" =>
        \A i \in 1..Len(Configured) :
            Validates(files, Configured[i]) =>
                /\ Configured[i] \in DOMAIN repo_hashes
                /\ repo_hashes[Configured[i]] = FreshHash(files, Configured[i])

\* ------------------------------------------------------------------------
\* Properties of the Entry Store and the filter state of the session
\* (specification Spec)
\* ------------------------------------------------------------------------
\* what a source of the startup configuration gives the Entry Store: its
\* entries, each with the configuration string as repository, when
\* validate_repository accepts the source
StartupPart(world, repo) ==
    IF validate_repository(world, repo).value[1]
    THEN [j \in 1..Len(SourceEntries(world, repo)) |->
             [f \in DOMAIN SourceEntries(world, repo)[j] \cup {"repository"} |->
                 IF f = "repository" THEN StrVal(repo)
                 ELSE SourceEntries(world, repo)[j][f]]]
    ELSE <<>>

\* the parts of the startup merge for each content of the sources, each
\* computed once
StartupParts ==
    [world \in Worlds |->
        [i \in 1..Len(Numbered(InitialConfig)) |->
            StartupPart(world, Numbered(InitialConfig)[i])]]

\* C23: in every state of the session the Entry Store is the merge built at
\* startup, the entries of each valid source of the startup configuration
\* in its order (local_files, then urls), each stamped with the
\* configuration string of its source; adding or deleting a repository, or
\* any other command, leaves it so.
StoreIsStartupMerge == IsConcatOf(all_data, StartupParts[files])

\* a repository was deleted and the 21 entries of the two files are still
\* stored, the twelfth stamped b.json
StoreIsStartupMerge_witness ==
    /\ user_input = "r"
    /\ config.local_files = <<J1>>
    /\ Len(all_data) = 21
    /\ all_data[12].repository = StrVal(J2)

\* the active sequence is what filter_data gives for the stored filter,
\* over every repository or over one of repos
ConsistentWithin(repos) ==
    \/ filtered_data = filter_data(all_data, current_filter, None, current_field)
    \/ \E repository \in repos :
          filtered_data =
              filter_data(all_data, current_filter, repository, current_field)

\* C27 as stated: in every state of the session the active sequence is
\* filter_data(all_data, keyword=current_filter, field=current_field),
\* unrestricted or restricted to exactly one repository of the
\* configuration.
FilterStateInConfig ==
    ConsistentWithin({Numbered(config)[i] : i \in 1..Len(Numbered(config))})

\* C27: in every state of the session the active sequence is
\* filter_data(all_data, keyword=current_filter, field=current_field),
\* unrestricted or restricted to exactly one repository reference, one
\* that is in the configuration or was when 'fr' selected it.
FilterStateConsistent == ConsistentWithin(RepoNames \cup AddNames)

\* 'fr' restricted a filter on tags to a.json: 6 of the 11 matching entries
FilterStateConsistent_witness ==
    /\ user_input = "fr"
    /\ number_text = <<"1">>
    /\ current_field = TAGS
    /\ Len(all_data) = 21
    /\ Len(filtered_data) = 6

\* ------------------------------------------------------------------------
\* The interactive session of the root variant (src/main.py); 'n', 'p',
\* 'q', 's' and the invalid input have the text of src/cli/neosearch.py
\* ------------------------------------------------------------------------
\* filter_data(data, keyword) of src/main.py
root_filter_data(data, keyword) ==
    IF keyword # <<>>
    THEN LET Keep(e) == GlobalMatch(e, keyword) IN SelectSeq(data, Keep)
    ELSE data

\* one turn of the loop over local_files: a missing file is reported and
\* skipped, text that is not JSON raises json.JSONDecodeError, which
\* nothing catches
RootLoadFile(world, repo) ==
    LET content == RepoContent(world, repo)
    IN  IF content.t = "json" THEN Returns(FileData(content.n))
        ELSE IF content.t = "missing" THEN Returns(<<>>)
        ELSE Raises("JSONDecodeError")

RECURSIVE RootLoadFiles(_, _)
RootLoadFiles(world, repos) ==
    IF repos = <<>> THEN Returns(<<>>)
    ELSE LET first == RootLoadFile(world, Head(repos))
             rest == RootLoadFiles(world, Tail(repos))
         IN  IF first.raised THEN first
             ELSE IF rest.raised THEN rest
             ELSE Returns(first.value \o rest.value)

\* one turn of the loop over urls: every exception is reported and skipped
RootLoadUrl(world, repo) ==
    LET content == RepoContent(world, repo)
    IN  IF content.t = "json" THEN FileData(content.n) ELSE <<>>

RECURSIVE RootLoadUrls(_, _)
RootLoadUrls(world, repos) ==
    IF repos = <<>> THEN <<>>
    ELSE RootLoadUrl(world, Head(repos)) \o RootLoadUrls(world, Tail(repos))

RootWorlds ==
    {World(Json(0), Missing, Missing),
     World(Json(1), Invalid, Json(1)),
     World(Json(5), Missing, Json(1)),
     World(Json(MaxFileEntries), Json(MaxFileEntries - 1), Missing)}

RootInit ==
    /\ files \in RootWorlds
    /\ config = InitialConfig
    /\ LET local == RootLoadFiles(files, config.local_files)
       IN  IF local.raised
           THEN /\ all_data = <<>>
                /\ pc = "crashed"
           ELSE /\ all_data = local.value \o RootLoadUrls(files, config.urls)
                /\ pc = IF all_data = <<>> THEN "returned" ELSE "loop"
    /\ current_page = 1
    /\ filtered_data = all_data
    /\ total_pages = TotalPages(Len(filtered_data), per_page)
    /\ current_filter = None
    /\ current_field = None
    /\ full_record = <<>>
    /\ last_query = <<>>
    /\ number_text = <<>>
    /\ user_input = ""

\* 'f': both branches filter on the residual text; the page is kept
RootFilter(query) ==
    /\ pc = "loop"
    /\ UNCHANGED <<parseVars, filterVars, serverVars, hashVars>>
    /\ user_input' = "f"
    /\ filtered_data' =
           root_filter_data(all_data, ParsedQuery[query].remaining_query)
    /\ total_pages' = TotalPages(Len(filtered_data'), per_page)
    /\ UNCHANGED <<files, config, all_data, current_page, current_filter,
                   current_field, pc>>
    /\ full_record' = <<>>
    /\ last_query' = query
    /\ number_text' = <<>>

\* 'c': the page is kept
RootClear ==
    /\ pc = "loop"
    /\ UNCHANGED <<parseVars, filterVars, serverVars, hashVars>>
    /\ user_input' = "c"
    /\ filtered_data' = all_data
    /\ total_pages' = TotalPages(Len(filtered_data'), per_page)
    /\ UNCHANGED <<files, config, all_data, current_page, current_filter,
                   current_field, pc>>
    /\ full_record' = <<>>
    /\ last_query' = <<>>
    /\ number_text' = <<>>

\* repositories is the list config holds under local_files, changed in
\* place, and config['repositories'] = repositories names it a second time
RootSetRepositories(cfg, repositories) ==
    [f \in DOMAIN cfg \cup {"repositories"} |->
        IF f \in {"local_files", "repositories"} THEN repositories ELSE cfg[f]]

\* 'r', then 'a'
RootReposAdd(new_repo) ==
    /\ pc = "loop"
    /\ UNCHANGED <<parseVars, filterVars, serverVars, hashVars>>
    /\ Len(config.local_files) + Len(config.urls) < MaxRepos
    /\ user_input' = "r"
    /\ config' = RootSetRepositories(config, Append(config.local_files, new_repo))
    /\ UNCHANGED <<files, all_data, filtered_data, current_page, total_pages,
                   current_filter, current_field, pc>>
    /\ full_record' = <<>>
    /\ last_query' = <<>>
    /\ number_text' = <<>>

\* 'r', then 'd': ValueError and IndexError leave the configuration
RootReposDelete(text) ==
    /\ pc = "loop"
    /\ UNCHANGED <<parseVars, filterVars, serverVars, hashVars>>
    /\ user_input' = "r"
    /\ LET repo_number == ParsedInt[text]
           popped == IF repo_number.ok
                     THEN PyPop(config.local_files, repo_number.val - 1)
                     ELSE [ok |-> FALSE]
       IN  config' = IF popped.ok THEN RootSetRepositories(config, popped.list)
                     ELSE config
    /\ UNCHANGED <<files, all_data, filtered_data, current_page, total_pages,
                   current_filter, current_field, pc>>
    /\ full_record' = <<>>
    /\ last_query' = <<>>
    /\ number_text' = text

RootNext ==
    \/ CmdNext
    \/ CmdPrev
    \/ CmdQuit
    \/ \E query \in SessionQueries : RootFilter(query)
    \/ RootClear
    \/ \E text \in SelectTexts : CmdSelect(text)
    \/ \E new_repo \in AddNames : RootReposAdd(new_repo)
    \/ \E text \in RepoNumberTexts : RootReposDelete(text)
    \/ CmdReposReturn
    \/ CmdInvalid

InitRoot == RootInit /\ ParseIdle /\ FilterIdle /\ ServerIdle /\ HashIdle

SpecRoot == InitRoot /\ [][RootNext]_vars

\* C25: in the session of src/main.py the page stays within bounds after
\* any sequence of commands: 1 <= current_page <= max(total_pages, 1), and
\* the slice shown is not past the end of a non-empty active sequence.
RootPageWithinBounds ==
    pc = "loop" =>
        /\ current_page >= 1
        /\ current_page <= Max(total_pages, 1)
        /\ filtered_data # <<>> => page_data # <<>>

\* ------------------------------------------------------------------------
\* save_config step by step (src/server/neosearch.py; save_yaml_config of
\* src/cli/neosearch.py has the same two lines): open(CONFIG_PATH, 'w')
\* truncates the file, yaml.dump writes the document through the file's
\* buffer, and leaving the with block flushes and closes it. The process
\* can stop between any two of these.
\* ------------------------------------------------------------------------
\* the file right after open(..., 'w')
Truncated == [t |-> "empty"]

\* the file holding the first k lines of the dump of cfg
PartialDump(cfg, k) == [t |-> "partial", of |-> cfg, lines |-> k]

RECURSIVE SumLines(_, _)
SumLines(cfg, keys) ==
    IF keys = {} THEN 0
    ELSE LET key == CHOOSE x \in keys : TRUE
         IN  (IF cfg[key] = <<>> THEN 1 ELSE 1 + Len(cfg[key]))
             + SumLines(cfg, keys \ {key})

\* the lines yaml.dump writes for cfg: "key: []" for an empty list, "key:"
\* and one "- item" line for each item otherwise
DumpLines(cfg) == SumLines(cfg, DOMAIN cfg)

\* what the file holds once k of the lines of the dump of cfg are flushed
Flushed(cfg, k) ==
    IF k = 0 THEN Truncated
    ELSE IF k = DumpLines(cfg) THEN cfg
    ELSE PartialDump(cfg, k)

CrashConfigs ==
    {[local_files |-> <<J1, J2>>, urls |-> <<U1>>],
     [local_files |-> <<>>, urls |-> <<>>]}

CrashInit ==
    /\ env_path = CONFIG_PATH
    /\ yaml_files \in {(CONFIG_PATH :> cfg) : cfg \in CrashConfigs}
    /\ repo_hashes = <<>>
    /\ request = [op |-> "none"]
    /\ response = [status |-> 0]
    /\ pc = "serving"

CrashFrame == UNCHANGED <<env_path, files, repo_hashes, sessionRest,
                          parseVars, filterVars, hashVars>>

\* a handler up to the open of save_config: it loads the configuration,
\* answers 400 or 404 without writing, or has the new configuration in
\* memory and the file truncated
BeginMutation(op, path) ==
    /\ pc = "serving"
    /\ op = "add" => Len(LocalFiles(yaml_files[CONFIG_PATH])) < MaxLocalFiles
    /\ LET handled == IF op = "add"
                      THEN add_repository(env_path, yaml_files, path)
                      ELSE delete_repository(env_path, yaml_files, path)
       IN  /\ request' = [op |-> op, path |-> path,
                          before |-> yaml_files[CONFIG_PATH],
                          config |-> handled.yaml[CONFIG_PATH],
                          flushed |-> 0]
           /\ IF handled.outcome.raised
              THEN /\ response' = Answer(handled.outcome)
                   /\ UNCHANGED <<yaml_files, pc>>
              ELSE /\ response' = [status |-> 0]
                   /\ yaml_files' = (CONFIG_PATH :> Truncated)
                   /\ pc' = "saving"
    /\ CrashFrame

\* the buffer is flushed up to line k of the dump; with the last line the
\* file is closed and the handler returns
FlushTo(k) ==
    /\ pc = "saving"
    /\ k > request.flushed
    /\ k <= DumpLines(request.config)
    /\ request' = [request EXCEPT !.flushed = k]
    /\ yaml_files' = (CONFIG_PATH :> Flushed(request.config, k))
    /\ IF k = DumpLines(request.config)
       THEN /\ pc' = "serving"
            /\ response' = [status |-> 200]
       ELSE UNCHANGED <<pc, response>>
    /\ CrashFrame

\* a flush of any further part of the buffer
Flush ==
    /\ pc = "saving"
    /\ \E k \in 1..DumpLines(request.config) : FlushTo(k)

\* the process is killed, or the machine stops
Crash ==
    /\ pc \in {"serving", "saving"}
    /\ pc' = "crashed"
    /\ UNCHANGED <<yaml_files, request, response>>
    /\ CrashFrame

CrashNext ==
    \/ \E op \in {"add", "delete"}, path \in ServerPaths : BeginMutation(op, path)
    \/ Flush
    \/ Crash

InitCrash == CrashInit /\ SessionIdle /\ ParseIdle /\ FilterIdle /\ HashIdle

SpecCrash == InitCrash /\ [][CrashNext]_vars

\* C21: a crash at any point of the write of an add or a delete leaves
\* config.yaml holding the complete previous configuration or the complete
\* new one, never an empty or partial document.
CrashKeepsConfig ==
    (pc = "crashed" /\ request.op # "none") =>
        yaml_files[CONFIG_PATH] \in {request.before, request.config}

\* ------------------------------------------------------------------------
\* Two POST /repositories/add requests at once (src/server/neosearch.py).
\* The handlers are plain def functions, which FastAPI runs in threads of a
\* pool: the steps of two requests interleave, and each request has its own
\* config, the document it loaded.
\* ------------------------------------------------------------------------
J3 == <<"c",".","j","s","o","n">>

RacePaths == ServerPaths \cup {J3}

Requests == {1, 2}

RaceInit ==
    /\ env_path = CONFIG_PATH
    /\ yaml_files \in {(CONFIG_PATH :> cfg) : cfg \in ServerConfigs}
    /\ repo_hashes = <<>>
    /\ request \in [Requests ->
                       {[path |-> path, at |-> "received", config |-> None] :
                            path \in RacePaths}]
    /\ response = [r \in Requests |-> [status |-> 0]]
    /\ pc = "serving"

RaceFrame == UNCHANGED <<env_path, files, repo_hashes, pc, sessionRest,
                         parseVars, filterVars, hashVars>>

\* config = load_config()
RaceLoad(r) ==
    /\ request[r].at = "received"
    /\ LET loaded == load_config(env_path, yaml_files)
       IN  IF loaded.raised
           THEN /\ request' = [request EXCEPT ![r].at = "done"]
                /\ response' = [response EXCEPT ![r] = Answer(loaded)]
           ELSE /\ request' = [request EXCEPT ![r].at = "loaded",
                                              ![r].config = loaded.value]
                /\ UNCHANGED response
    /\ UNCHANGED yaml_files
    /\ RaceFrame

\* the test on local_files and the append, on the request's own config
RaceAppend(r) ==
    /\ request[r].at = "loaded"
    /\ IF InList(request[r].path, LocalFiles(request[r].config))
       THEN /\ request' = [request EXCEPT ![r].at = "done"]
            /\ response' =
                   [response EXCEPT
                       ![r] = Answer(HTTPException(400, "Repository already exists."))]
       ELSE /\ request' =
                   [request EXCEPT
                       ![r].at = "appended",
                       ![r].config = AppendLocalFile(@, request[r].path)]
            /\ UNCHANGED response
    /\ UNCHANGED yaml_files
    /\ RaceFrame

\* save_config(config) and the return
RaceSave(r) ==
    /\ request[r].at = "appended"
    /\ yaml_files' = save_config(env_path, yaml_files, request[r].config)
    /\ request' = [request EXCEPT ![r].at = "done"]
    /\ response' =
           [response EXCEPT
               ![r] = Answer(Returns([message |-> "Repository added successfully."]))]
    /\ RaceFrame

RaceNext ==
    \/ \E r \in Requests : RaceLoad(r)
    \/ \E r \in Requests : RaceAppend(r)
    \/ \E r \in Requests : RaceSave(r)

InitRace == RaceInit /\ SessionIdle /\ ParseIdle /\ FilterIdle /\ HashIdle

SpecRace == InitRace /\ [][RaceNext]_vars

\* C29: two concurrent adds of two different paths, neither configured
\* (both are answered 200), lose no update: once both are done,
\* local_files holds both paths.
NoLostUpdate ==
    (/\ \A r \in Requests : request[r].at = "done" /\ response[r].status = 200
     /\ request[1].path # request[2].path) =>
        \A r \in Requests :
            InList(request[r].path, LocalFiles(yaml_files[CONFIG_PATH]))

\* ------------------------------------------------------------------------
\* The background change check of the service (specification
\* SpecServerLive)
\* ------------------------------------------------------------------------
\* the cache holds a hash for every configured local repository that
\* validates
CacheCoversValid ==
    \A i \in 1..Len(Configured) :
        Validates(files, Configured[i]) => Configured[i] \in DOMAIN repo_hashes

\* C26: after the service starts the background change check is eventually
\* executed, with no request asking for it: the Repo Hash Cache eventually
\* holds a hash for every configured local repository that validates.
BackgroundCheckRuns == <>(pc = "serving" /\ CacheCoversValid)

====
